---- MODULE Spec2Model ----
\* Verification model of the deterministic analysis engine of REPOINTEL:
\* scoring engine, role recommender, dependency parser, technology analyzer,
\* domain classifier and the report orchestrator (AnalysisService).
\*
\* Conventions
\*   - Python None is the model value None; a Python dict is a TLA+ record or
\*     function; a missing key is a field that is not in DOMAIN.
\*   - A call that ends in a Python exception yields Raised(<exception type>).
\*   - Text is a sequence of one-character strings, so that substring and
\*     word-boundary matching are computed and not assumed.
\*   - documentation_percentage is the exact rational [n |-> , d |-> ] (n/d);
\*     scores with one decimal (overall, quality) are held in tenths.
EXTENDS Integers, Sequences, FiniteSets, TLC

VARIABLES
    op,       \* the operation under call
    args,     \* its arguments
    stage,    \* position inside _generate_deterministic_report ("idle" outside it)
    locals,   \* local variables of _generate_deterministic_report
    ret       \* the value returned to the caller, Pending before the return

vars == <<op, args, stage, locals, ret>>

None == [none |-> TRUE]
Pending == [pending |-> TRUE]
NoLocals == [x \in {} |-> None]

\* outcome of a call: a value, or the type of the exception that left it
Ok(v) == [raised |-> "", value |-> v]
Raised(e) == [raised |-> e]
IsRaised(r) == "raised" \in DOMAIN r /\ r.raised # ""
Returned(r) == "raised" \in DOMAIN r /\ r.raised = ""

Min(a, b) == IF a < b THEN a ELSE b
Max(a, b) == IF a > b THEN a ELSE b
Has(d, k) == k \in DOMAIN d
Get(d, k, default) == IF k \in DOMAIN d THEN d[k] ELSE default

\* the sequences over S of length at most n
RECURSIVE SeqsUpTo(_, _)
SeqsUpTo(S, n) ==
    IF n = 0 THEN {<<>>}
    ELSE SeqsUpTo(S, n - 1)
         \cup { Append(q, x) : q \in {r \in SeqsUpTo(S, n - 1) : Len(r) = n - 1}, x \in S }

RECURSIVE SeqSum(_)
SeqSum(s) == IF s = <<>> THEN 0 ELSE Head(s) + SeqSum(Tail(s))

\* ---------------------------------------------------------------------------
\* Rationals for documentation_percentage
\* ---------------------------------------------------------------------------
Pct(n, d) == [n |-> n, d |-> d]
PctGT(p, k) == p.n > k * p.d
PctLT(p, k) == p.n < k * p.d
PctInt(p) == p.n \div p.d

\* Python round(n/d) for d > 0: round half to even.
RoundHalfEven(n, d) ==
    LET f == n \div d
        r2 == 2 * (n - f * d)
    IN  IF r2 > d THEN f + 1
        ELSE IF r2 < d THEN f
        ELSE IF f % 2 = 0 THEN f ELSE f + 1

\* ---------------------------------------------------------------------------
\* ScoringEngine
\* ---------------------------------------------------------------------------
_get_empty_metrics ==
    [total_repos |-> 0, total_stars |-> 0, total_forks |-> 0,
     repos_with_readme |-> 0, documentation_percentage |-> Pct(0, 1),
     total_markdown_files |-> 0,
     days_since_last_commit |-> 999, active_repos_count |-> 0,
     account_age_years |-> 0, language_distribution |-> <<>>,
     has_production_signals |-> FALSE]

\* the mutant whose score for 90 days and more is below the red-flag limit
ConstScoreBelowThree(days) ==
    IF days < 7 THEN 10
    ELSE IF days < 30 THEN 8
    ELSE IF days < 90 THEN 6
    ELSE 2

ConstScore(days) ==
    IF days < 7 THEN 10
    ELSE IF days < 30 THEN 8
    ELSE IF days < 90 THEN 6
    ELSE 3

\* the mutant that rounds a half up
DocScoreHalfUp(p) == Min(10, (2 * p.n + 10 * p.d) \div (20 * p.d))

DocScore(p) == Min(10, RoundHalfEven(p.n, 10 * p.d))

StarScore(star_raw) == Min(10, star_raw \div 5)

\* the weighted average without the floor
OverallFloorBug(star_score, const_score, doc_score) ==
    3 * star_score + 3 * const_score + 4 * doc_score

\* overall in tenths: star*0.3 + const*0.3 + doc*0.4, floored at 6.0
Overall(star_score, const_score, doc_score) ==
    Max(60, 3 * star_score + 3 * const_score + 4 * doc_score)

\* the depth with the thresholds read as "at least"
DepthAtLeast(overall) ==
    IF overall >= 85 THEN "Senior"
    ELSE IF overall >= 65 THEN "Mid-level"
    ELSE "Junior"

Depth(overall) ==
    IF overall > 85 THEN "Senior"
    ELSE IF overall > 65 THEN "Mid-level"
    ELSE "Junior"

calculate_scores(metrics, tech) ==
    IF ~ (Has(metrics, "days_since_last_commit") /\ Has(metrics, "documentation_percentage")
          /\ Has(metrics, "total_stars") /\ Has(metrics, "active_repos_count"))
    THEN Raised("KeyError")
    ELSE
    LET const_score == ConstScore(metrics.days_since_last_commit)
        doc_score == DocScore(metrics.documentation_percentage)
        star_score == StarScore(metrics.total_stars)
        overall == Overall(star_score, const_score, doc_score)
    IN  Ok(
        [overall |-> overall,
         consistency |-> const_score,
         docs_score |-> doc_score,
         depth |-> Depth(overall),
         proficiency |->
             [i \in DOMAIN Get(tech, "primary_stack", <<>>) |->
                 [k |-> tech.primary_stack[i],
                  v |-> [score |-> 8, evidence |-> "Primary language"]]],
         trajectory |-> IF const_score > 7 THEN "Rising" ELSE "Steady",
         quality |-> (doc_score + 8) * 5,
         activity_label |-> IF metrics.active_repos_count > 3 THEN "High Volume" ELSE "Standard"])

\* ---------------------------------------------------------------------------
\* Text: Python str as a sequence of one-character strings
\* ---------------------------------------------------------------------------
LowerLetters == {"a", "b", "c", "d", "e", "f", "g", "h", "i", "j", "k", "l", "m",
                 "n", "o", "p", "q", "r", "s", "t", "u", "v", "w", "x", "y", "z"}
UpperLetters == {"A", "B", "C", "D", "E", "F", "G", "H", "I", "J", "K", "L", "M",
                 "N", "O", "P", "Q", "R", "S", "T", "U", "V", "W", "X", "Y", "Z"}
Digits == {"0", "1", "2", "3", "4", "5", "6", "7", "8", "9"}
Whitespace == {" ", "\t", "\n", "\r"}

ToLower ==
    "A" :> "a" @@ "B" :> "b" @@ "C" :> "c" @@ "D" :> "d" @@ "E" :> "e" @@ "F" :> "f" @@
    "G" :> "g" @@ "H" :> "h" @@ "I" :> "i" @@ "J" :> "j" @@ "K" :> "k" @@ "L" :> "l" @@
    "M" :> "m" @@ "N" :> "n" @@ "O" :> "o" @@ "P" :> "p" @@ "Q" :> "q" @@ "R" :> "r" @@
    "S" :> "s" @@ "T" :> "t" @@ "U" :> "u" @@ "V" :> "v" @@ "W" :> "w" @@ "X" :> "x" @@
    "Y" :> "y" @@ "Z" :> "z"

ToUpper ==
    "a" :> "A" @@ "b" :> "B" @@ "c" :> "C" @@ "d" :> "D" @@ "e" :> "E" @@ "f" :> "F" @@
    "g" :> "G" @@ "h" :> "H" @@ "i" :> "I" @@ "j" :> "J" @@ "k" :> "K" @@ "l" :> "L" @@
    "m" :> "M" @@ "n" :> "N" @@ "o" :> "O" @@ "p" :> "P" @@ "q" :> "Q" @@ "r" :> "R" @@
    "s" :> "S" @@ "t" :> "T" @@ "u" :> "U" @@ "v" :> "V" @@ "w" :> "W" @@ "x" :> "X" @@
    "y" :> "Y" @@ "z" :> "Z"

IsLetter(c) == c \in LowerLetters \cup UpperLetters
\* \w of the re module on ASCII text
IsWordChar(c) == c \in LowerLetters \cup UpperLetters \cup Digits \cup {"_"}

LowerChar(c) == IF c \in UpperLetters THEN ToLower[c] ELSE c
UpperChar(c) == IF c \in LowerLetters THEN ToUpper[c] ELSE c

\* str.lower()
LowerText(t) == [i \in 1..Len(t) |-> LowerChar(t[i])]

\* str.title(): a letter is upper-cased after a non-letter, lower-cased after a letter
TitleText(t) ==
    [i \in 1..Len(t) |->
        IF i > 1 /\ IsLetter(t[i - 1]) THEN LowerChar(t[i]) ELSE UpperChar(t[i])]

\* needle in hay
Contains(hay, needle) ==
    \E i \in 0..(Len(hay) - Len(needle)) :
        \A j \in 1..Len(needle) : hay[i + j] = needle[j]

StartsWith(t, prefix) ==
    Len(prefix) <= Len(t) /\ \A j \in 1..Len(prefix) : t[j] = prefix[j]

\* number of leading characters of t, from position from, that are in set
RECURSIVE RunLength(_, _, _)
RunLength(t, from, set) ==
    IF from > Len(t) \/ t[from] \notin set THEN 0
    ELSE 1 + RunLength(t, from + 1, set)

RECURSIVE TrailingRun(_, _)
TrailingRun(t, set) ==
    IF t = <<>> \/ t[Len(t)] \notin set THEN 0
    ELSE 1 + TrailingRun(SubSeq(t, 1, Len(t) - 1), set)

\* str.strip()
StripText(t) ==
    LET a == RunLength(t, 1, Whitespace)
    IN  IF a = Len(t) THEN <<>>
        ELSE SubSeq(t, a + 1, Len(t) - TrailingRun(t, Whitespace))

\* the characters of a string constant, as a sequence of one-character strings
Chars == [s \in STRING |-> [i \in 1..Len(s) |-> SubSeq(s, i, i)]]

\* ---------------------------------------------------------------------------
\* Strings: str.lower() and str.strip() on the names the model uses
\* ---------------------------------------------------------------------------
EmptyDict == [x \in {} |-> None]
\* Python truthiness of a dict-or-None argument
Falsy(d) == d = None \/ d = EmptyDict

\* the framework groups of _map_domain_to_roles, in the order the code tests them
FrameworkGroups == <<
    [group |-> "mobile_frameworks",
     names |-> {"react-native", "react native", "flutter", "ionic", "xamarin", "expo", "cordova",
               "capacitor", "nativescript"},
     role |-> "Mobile Developer",
     suitable |-> <<"Mobile Developer", "React Native Developer", "Flutter Developer",
                  "Cross-platform Developer", "Full-stack Developer">>],
    [group |-> "frontend_frameworks",
     names |-> {"react", "vue", "angular", "svelte", "next.js", "nuxt", "gatsby", "preact",
               "solid", "qwik", "astro", "remix", "vite", "webpack", "parcel", "rollup",
               "esbuild", "tailwind", "bootstrap", "material-ui", "chakra", "styled-components",
               "emotion"},
     role |-> "Frontend Developer",
     suitable |-> <<"Frontend Developer", "React Developer", "Vue Developer",
                  "Full-stack Developer", "UI Developer", "Frontend Engineer">>],
    [group |-> "backend_frameworks",
     names |-> {"django", "flask", "fastapi", "express", "nest.js", "nestjs", "koa", "spring",
               "spring boot", "laravel", "symfony", "rails", "ruby on rails", "asp.net",
               "dotnet", ".net", "gin", "echo", "fiber", "actix", "rocket", "phoenix", "elixir",
               "play", "ktor", "micronaut", "quarkus", "grpc"},
     role |-> "Backend Developer",
     suitable |-> <<"Backend Developer", "API Developer", "Backend Engineer",
                  "Full-stack Developer", "Microservices Developer">>],
    [group |-> "fullstack_combo",
     names |-> {"next.js", "nuxt", "remix", "meteor", "sveltekit", "blitz"},
     role |-> "Full-stack Developer",
     suitable |-> <<"Full-stack Developer", "Web Developer", "Frontend Developer",
                  "Backend Developer">>],
    [group |-> "data_science_frameworks",
     names |-> {"pandas", "numpy", "scipy", "matplotlib", "seaborn", "plotly", "scikit-learn",
               "sklearn", "statsmodels", "dask", "polars", "jupyter", "notebook", "spark",
               "pyspark", "airflow", "prefect"},
     role |-> "Data Scientist",
     suitable |-> <<"Data Scientist", "Data Analyst", "Analytics Engineer",
                  "Business Intelligence Developer">>],
    [group |-> "ml_frameworks",
     names |-> {"tensorflow", "pytorch", "keras", "jax", "mxnet", "caffe", "theano",
               "transformers", "hugging face", "openai", "langchain", "llamaindex", "mlflow",
               "wandb", "optuna", "ray", "xgboost", "lightgbm", "catboost"},
     role |-> "ML Engineer",
     suitable |-> <<"ML Engineer", "Machine Learning Engineer", "AI Developer",
                  "Research Engineer", "MLOps Engineer">>],
    [group |-> "devops_frameworks",
     names |-> {"docker", "kubernetes", "k8s", "terraform", "ansible", "jenkins",
               "github actions", "gitlab ci", "circleci", "travis", "helm", "kustomize",
               "prometheus", "grafana", "datadog", "new relic", "vagrant", "packer", "consul",
               "vault", "nomad", "pulumi", "cloudformation", "aws cdk"},
     role |-> "DevOps Engineer",
     suitable |-> <<"DevOps Engineer", "Cloud Engineer", "Platform Engineer", "SRE",
                  "Infrastructure Engineer", "Kubernetes Engineer">>],
    [group |-> "game_frameworks",
     names |-> {"unity", "unreal", "godot", "pygame", "phaser", "three.js", "babylon.js",
               "cocos2d", "libgdx", "monogame", "love2d", "raylib", "bevy", "amethyst"},
     role |-> "Game Developer",
     suitable |-> <<"Game Developer", "Unity Developer", "Unreal Developer", "Game Engineer",
                  "Graphics Programmer">>],
    [group |-> "blockchain_frameworks",
     names |-> {"web3", "ethers", "web3.js", "truffle", "hardhat", "brownie", "solidity",
               "anchor", "solana", "ethereum", "polygon", "wagmi"},
     role |-> "Blockchain Developer",
     suitable |-> <<"Blockchain Developer", "Web3 Developer", "Smart Contract Developer",
                  "DeFi Developer">>],
    [group |-> "testing_frameworks",
     names |-> {"jest", "pytest", "mocha", "chai", "jasmine", "karma", "vitest", "cypress",
               "playwright", "selenium", "puppeteer", "testcafe", "junit", "testng", "rspec",
               "minitest", "unittest", "nose"},
     role |-> "QA Engineer",
     suitable |-> <<"QA Engineer", "Test Automation Engineer", "SDET",
                  "Quality Assurance Engineer">>],
    [group |-> "database_frameworks",
     names |-> {"mongodb", "postgres", "postgresql", "mysql", "redis", "elasticsearch",
               "cassandra", "dynamodb", "firestore", "supabase", "prisma", "sequelize",
               "typeorm", "mongoose", "sqlalchemy", "alembic", "knex", "drizzle"},
     role |-> "Data Engineer",
     suitable |-> <<"Data Engineer", "Database Engineer", "Backend Developer",
                  "Data Platform Engineer">>],
    [group |-> "embedded_frameworks",
     names |-> {"arduino", "raspberry", "esp32", "micropython", "circuitpython", "freertos",
               "zephyr", "mbed", "platformio", "embedded"},
     role |-> "Embedded Systems Engineer",
     suitable |-> <<"Embedded Systems Engineer", "IoT Developer", "Firmware Engineer",
                  "Hardware Engineer">>],
    [group |-> "desktop_frameworks",
     names |-> {"electron", "tauri", "qt", "pyqt", "tkinter", "wxpython", "kivy", "gtk",
               "winforms", "wpf", "javafx", "swing", "avalonia"},
     role |-> "Desktop Developer",
     suitable |-> <<"Desktop Developer", "Application Developer", "Cross-platform Developer",
                  "Software Engineer">>],
    [group |-> "api_frameworks",
     names |-> {"graphql", "apollo", "prisma", "hasura", "postgraphile", "swagger", "openapi",
               "grpc", "protobuf", "kafka", "rabbitmq", "redis", "nats"},
     role |-> "API Developer",
     suitable |-> <<"API Developer", "Backend Developer", "Microservices Developer",
                  "Integration Engineer">>]
    >>

\* lang_role_map of _infer_role_from_languages
lang_role_map ==
    "python" :> [role |-> "Python Developer",
        suitable |-> <<"Python Developer", "Backend Developer", "Data Engineer">>] @@
    "javascript" :> [role |-> "Full-stack Developer",
        suitable |-> <<"Full-stack Developer", "Frontend Developer", "Backend Developer">>] @@
    "typescript" :> [role |-> "Full-stack Developer",
        suitable |-> <<"Full-stack Developer", "Frontend Developer", "Backend Developer">>] @@
    "java" :> [role |-> "Backend Developer",
        suitable |-> <<"Backend Developer", "Enterprise Developer", "Software Engineer">>] @@
    "kotlin" :> [role |-> "Android Developer",
        suitable |-> <<"Android Developer", "Mobile Developer", "Backend Developer">>] @@
    "swift" :> [role |-> "iOS Developer",
        suitable |-> <<"iOS Developer", "Mobile Developer">>] @@
    "dart" :> [role |-> "Flutter Developer",
        suitable |-> <<"Flutter Developer", "Mobile Developer">>] @@
    "go" :> [role |-> "Backend Developer",
        suitable |-> <<"Backend Developer", "Systems Engineer", "Cloud Engineer">>] @@
    "rust" :> [role |-> "Systems Engineer",
        suitable |-> <<"Systems Engineer", "Backend Developer", "Performance Engineer">>] @@
    "c++" :> [role |-> "Systems Engineer",
        suitable |-> <<"Systems Engineer", "Game Developer", "Performance Engineer">>] @@
    "c#" :> [role |-> "Full-stack Developer",
        suitable |-> <<"Full-stack Developer", "Game Developer", ".NET Developer">>] @@
    "php" :> [role |-> "Backend Developer",
        suitable |-> <<"Backend Developer", "Web Developer", "Full-stack Developer">>] @@
    "ruby" :> [role |-> "Backend Developer",
        suitable |-> <<"Backend Developer", "Web Developer", "Full-stack Developer">>] @@
    "r" :> [role |-> "Data Scientist",
        suitable |-> <<"Data Scientist", "Data Analyst", "Statistician">>] @@
    "scala" :> [role |-> "Backend Developer",
        suitable |-> <<"Backend Developer", "Data Engineer", "Big Data Engineer">>]

\* _build_domain_role_map: domain name -> (primary_role, suitable_roles_list)
domain_role_map ==
    "AI & Machine Learning" :> [role |-> "AI/ML Engineer",
        suitable |-> <<"AI/ML Engineer", "Machine Learning Engineer", "Data Scientist">>] @@
    "Computer Vision" :> [role |-> "Computer Vision Engineer",
        suitable |-> <<"Computer Vision Engineer", "AI/ML Engineer", "Research Engineer">>] @@
    "Natural Language Processing" :> [role |-> "NLP Engineer",
        suitable |-> <<"NLP Engineer", "AI/ML Engineer", "Research Scientist">>] @@
    "Data Science & Analytics" :> [role |-> "Data Scientist",
        suitable |-> <<"Data Scientist", "Data Analyst", "ML Engineer">>] @@
    "Data Engineering" :> [role |-> "Data Engineer",
        suitable |-> <<"Data Engineer", "Big Data Engineer", "ETL Developer">>] @@
    "Blockchain & Web3" :> [role |-> "Blockchain Developer",
        suitable |-> <<"Blockchain Developer", "Smart Contract Developer", "Web3 Engineer">>] @@
    "Mobile Development" :> [role |-> "Mobile Developer",
        suitable |-> <<"Mobile Developer", "iOS Developer", "Android Developer",
                        "Flutter Developer">>] @@
    "Game Development" :> [role |-> "Game Developer",
        suitable |-> <<"Game Developer", "Unity Developer", "Game Engineer",
                        "Graphics Programmer">>] @@
    "DevOps & Cloud" :> [role |-> "DevOps Engineer",
        suitable |-> <<"DevOps Engineer", "Cloud Engineer", "SRE", "Platform Engineer">>] @@
    "Cybersecurity" :> [role |-> "Security Engineer",
        suitable |-> <<"Security Engineer", "Cybersecurity Analyst", "Penetration Tester",
                        "Security Architect">>] @@
    "IoT & Embedded" :> [role |-> "Embedded Systems Engineer",
        suitable |-> <<"Embedded Systems Engineer", "IoT Developer", "Firmware Engineer">>] @@
    "Frontend Development" :> [role |-> "Frontend Developer",
        suitable |-> <<"Frontend Developer", "UI Developer", "React Developer",
                        "Vue Developer">>] @@
    "Backend Development" :> [role |-> "Backend Developer",
        suitable |-> <<"Backend Developer", "API Developer", "Microservices Developer">>] @@
    "Web Development" :> [role |-> "Full-stack Developer",
        suitable |-> <<"Full-stack Developer", "Web Developer", "Software Engineer">>] @@
    "UI/UX Design" :> [role |-> "UI/UX Developer",
        suitable |-> <<"UI/UX Developer", "Frontend Developer", "Design Engineer">>] @@
    "Finance (FinTech)" :> [role |-> "FinTech Developer",
        suitable |-> <<"FinTech Developer", "Financial Software Engineer",
                        "Backend Developer">>] @@
    "Healthcare" :> [role |-> "Healthcare Software Engineer",
        suitable |-> <<"Healthcare Software Engineer", "Medical Software Developer",
                        "Health Tech Developer">>] @@
    "E-commerce" :> [role |-> "E-commerce Developer",
        suitable |-> <<"E-commerce Developer", "Full-stack Developer", "Platform Engineer">>] @@
    "Education (EdTech)" :> [role |-> "EdTech Developer",
        suitable |-> <<"EdTech Developer", "Full-stack Developer", "LMS Developer">>] @@
    "Enterprise Software" :> [role |-> "Enterprise Software Engineer",
        suitable |-> <<"Enterprise Software Engineer", "Backend Developer",
                        "Solutions Architect">>] @@
    "Civil Engineering & Construction" :> [role |-> "Civil Engineering Software Developer",
        suitable |-> <<"Civil Engineering Software Developer", "CAD/BIM Developer",
                        "Construction Tech">>] @@
    "Architecture & Design" :> [role |-> "Architecture Software Developer",
        suitable |-> <<"Architecture Software Developer", "CAD Developer",
                        "3D Visualization Developer">>] @@
    "Accounting & Auditing" :> [role |-> "Accounting Software Developer",
        suitable |-> <<"Accounting Software Developer", "Financial Software Engineer",
                        "ERP Developer">>] @@
    "Legal & Compliance" :> [role |-> "Legal Tech Developer",
        suitable |-> <<"Legal Tech Developer", "Compliance Software Engineer",
                        "RegTech Developer">>] @@
    "Real Estate & Property" :> [role |-> "PropTech Developer",
        suitable |-> <<"PropTech Developer", "Real Estate Platform Engineer",
                        "Full-stack Developer">>] @@
    "Manufacturing & Supply Chain" :> [role |-> "Manufacturing Software Engineer",
        suitable |-> <<"Manufacturing Software Engineer", "Supply Chain Developer",
                        "MES Developer">>] @@
    "Logistics & Transportation" :> [role |-> "Logistics Software Engineer",
        suitable |-> <<"Logistics Software Engineer", "Transportation Tech Developer",
                        "Fleet Management Developer">>] @@
    "Hospitality & Tourism" :> [role |-> "Hospitality Tech Developer",
        suitable |-> <<"Hospitality Tech Developer", "Booking Platform Engineer",
                        "Travel Tech Developer">>] @@
    "Agriculture & Food Tech" :> [role |-> "AgTech Developer",
        suitable |-> <<"AgTech Developer", "Agricultural Software Engineer",
                        "Farm Management Developer">>] @@
    "Energy & Utilities" :> [role |-> "Energy Tech Developer",
        suitable |-> <<"Energy Tech Developer", "Utilities Software Engineer",
                        "Smart Grid Developer">>] @@
    "Telecommunications" :> [role |-> "Telecom Software Engineer",
        suitable |-> <<"Telecom Software Engineer", "Network Software Developer",
                        "5G Developer">>] @@
    "Media & Publishing" :> [role |-> "Media Tech Developer",
        suitable |-> <<"Media Tech Developer", "Content Platform Engineer",
                        "Publishing Platform Developer">>] @@
    "Human Resources & Recruitment" :> [role |-> "HR Tech Developer",
        suitable |-> <<"HR Tech Developer", "Recruitment Platform Engineer",
                        "ATS Developer">>] @@
    "Consulting & Professional Services" :> [role |-> "Consulting Tech Developer",
        suitable |-> <<"Consulting Tech Developer", "Business Solutions Developer",
                        "CRM Developer">>] @@
    "Insurance & Risk Management" :> [role |-> "InsurTech Developer",
        suitable |-> <<"InsurTech Developer", "Insurance Software Engineer",
                        "Risk Analytics Developer">>] @@
    "Retail & Point of Sale" :> [role |-> "Retail Tech Developer",
        suitable |-> <<"Retail Tech Developer", "POS Developer",
                        "Inventory Management Developer">>] @@
    "Non-Profit & NGO" :> [role |-> "Non-Profit Tech Developer",
        suitable |-> <<"Non-Profit Tech Developer", "Social Impact Developer",
                        "Donor Management Developer">>] @@
    "Marketing & SEO" :> [role |-> " Marketing Tech Developer",
        suitable |-> <<"Marketing Tech Developer", "MarTech Engineer",
                        "SEO Platform Developer">>] @@
    "Media & Entertainment" :> [role |-> "Entertainment Tech Developer",
        suitable |-> <<"Entertainment Tech Developer", "Streaming Platform Engineer",
                        "Media Developer">>] @@
    "Social & Communication" :> [role |-> "Social Platform Developer",
        suitable |-> <<"Social Platform Developer", "Communication App Developer",
                        "Community Platform Engineer">>] @@
    "Software Development" :> [role |-> "Software Engineer",
        suitable |-> <<"Software Engineer", "Full-stack Developer", "Backend Developer">>]

\* ---------------------------------------------------------------------------
\* RoleRecommender
\* ---------------------------------------------------------------------------
IsDict(f) == ~ Has(f, "nondict")

\* [f.get('name', '').lower() for f in frameworks if isinstance(f, dict)]
FrameworkNames(frameworks) ==
    { LowerText(Get(frameworks[i], "name", <<>>)) :
        i \in {j \in DOMAIN frameworks : IsDict(frameworks[j])} }

GroupHit(names, g) == \E fw \in FrameworkGroups[g].names : Chars[fw] \in names

\* the mutant in which the last group that lists a detected name decides
RECURSIVE FrameworkStageLastGroup(_, _)
FrameworkStageLastGroup(names, g) ==
    IF g > Len(FrameworkGroups) THEN None
    ELSE IF FrameworkStageLastGroup(names, g + 1) # None
         THEN FrameworkStageLastGroup(names, g + 1)
         ELSE IF GroupHit(names, g)
              THEN [role |-> FrameworkGroups[g].role, suitable |-> FrameworkGroups[g].suitable]
              ELSE None

\* the chain of "if any(fw in framework_names for fw in <group>): return ..."
RECURSIVE FrameworkStage(_, _)
FrameworkStage(names, g) ==
    IF g > Len(FrameworkGroups) THEN None
    ELSE IF GroupHit(names, g)
         THEN [role |-> FrameworkGroups[g].role, suitable |-> FrameworkGroups[g].suitable]
         ELSE FrameworkStage(names, g + 1)

_infer_role_from_languages(languages) ==
    IF languages = <<>>
    THEN [role |-> "Software Engineer", suitable |-> <<"Software Engineer", "Developer">>]
    ELSE LET primary_lang == LowerText(Chars[languages[1]])
             keys == { k \in DOMAIN lang_role_map : Chars[k] = primary_lang }
         IN  IF keys # {}
             THEN lang_role_map[CHOOSE k \in keys : TRUE]
             ELSE [role |-> "Software Engineer", suitable |-> <<"Software Engineer", "Developer">>]

DomainStage(domain) ==
    IF domain # "" /\ StripText(Chars[domain]) # <<>> /\ domain \in DOMAIN domain_role_map
    THEN domain_role_map[domain]
    ELSE [role |-> "Software Engineer", suitable |-> <<"Software Engineer", "Full-stack Developer">>]

LanguageStage(domain, languages) ==
    IF languages # <<>> /\ _infer_role_from_languages(languages).role # "Software Engineer"
    THEN _infer_role_from_languages(languages)
    ELSE DomainStage(domain)

\* a variant that consults the language table before the framework groups
MapLanguageFirst(domain, languages, frameworks) ==
    IF languages # <<>> /\ _infer_role_from_languages(languages).role # "Software Engineer"
    THEN _infer_role_from_languages(languages)
    ELSE IF frameworks # <<>> /\ FrameworkStage(FrameworkNames(frameworks), 1) # None
         THEN FrameworkStage(FrameworkNames(frameworks), 1)
         ELSE DomainStage(domain)

_map_domain_to_roles(domain, languages, frameworks) ==
    IF frameworks # <<>> /\ FrameworkStage(FrameworkNames(frameworks), 1) # None
    THEN FrameworkStage(FrameworkNames(frameworks), 1)
    ELSE LanguageStage(domain, languages)

\* the flags with the documentation threshold of the green flag read as
\* "at least 50" and without the fallback
GenerateFlagsAtLeast(domain, scores, metrics) ==
    [green_flags |->
         (IF domain # "" /\ domain # "Software Development"
             THEN <<"Specialized in <domain>">> ELSE <<>>)
         \o (IF Get(scores, "overall", 0) >= 70
             THEN <<"High Technical Proficiency">> ELSE <<>>)
         \o (IF ~ PctLT(Get(metrics, "documentation_percentage", Pct(0, 1)), 50)
             THEN <<"Strong Documentation Practices">> ELSE <<>>)
         \o (IF Get(metrics, "total_stars", 0) > 10
             THEN <<"Community Recognition">> ELSE <<>>),
     red_flags |->
         (IF Get(scores, "consistency", 0) < 3
             THEN <<"Low Activity Consistency">> ELSE <<>>)
         \o (IF PctLT(Get(metrics, "documentation_percentage", Pct(0, 1)), 20)
             THEN <<"Limited Documentation">> ELSE <<>>)]

_generate_flags(domain, scores, metrics) ==
    LET green ==
            (IF domain # "" /\ domain # "Software Development"
                THEN <<"Specialized in <domain>">> ELSE <<>>)   \* f"Specialized in {domain}"
            \o (IF Get(scores, "overall", 0) >= 70
                THEN <<"High Technical Proficiency">> ELSE <<>>)
            \o (IF PctGT(Get(metrics, "documentation_percentage", Pct(0, 1)), 50)
                THEN <<"Strong Documentation Practices">> ELSE <<>>)
            \o (IF Get(metrics, "total_stars", 0) > 10
                THEN <<"Community Recognition">> ELSE <<>>)
        red ==
            (IF Get(scores, "consistency", 0) < 3
                THEN <<"Low Activity Consistency">> ELSE <<>>)
            \o (IF PctLT(Get(metrics, "documentation_percentage", Pct(0, 1)), 20)
                THEN <<"Limited Documentation">> ELSE <<>>)
    IN  [green_flags |-> IF green = <<>> THEN <<"Demonstrated Domain Expertise">> ELSE green,
         red_flags |-> red]

_calculate_confidence(metrics) ==
    LET doc_pct == Get(metrics, "documentation_percentage", Pct(0, 1))
    IN  IF PctGT(doc_pct, 60) THEN "Very High"
        ELSE IF PctGT(doc_pct, 40) THEN "High"
        ELSE IF PctGT(doc_pct, 20) THEN "Medium"
        ELSE "Low"

_assess_team_fit(metrics) ==
    LET forks == Get(metrics, "total_forks", 0)
    IN  IF forks > 5 THEN "Strong collaboration signals"
        ELSE IF forks > 0 THEN "Some collaboration evidence"
        ELSE "Verifiable code history"

_suggest_salary_bracket(overall_score) ==
    IF overall_score >= 80 THEN "Premium"
    ELSE IF overall_score >= 60 THEN "Competitive"
    ELSE IF overall_score >= 40 THEN "Standard"
    ELSE "Entry-level"

_suggest_next_steps(overall_score) ==
    <<"Technical Interview", "Code Review">>
    \o (IF overall_score >= 70
        THEN <<"System Design Discussion", "Team Culture Fit">>
        ELSE <<"Coding Assignment">>)

SubSeqTo(s, n) == SubSeq(s, 1, Min(n, Len(s)))

recommend_role(domain_analysis, tech_analysis, scores, metrics) ==
    LET da == IF Falsy(domain_analysis)
              THEN [primary_domain |-> "Software Development", secondary_domains |-> <<>>]
              ELSE domain_analysis
        ta == IF Falsy(tech_analysis)
              THEN [primary_stack |-> <<>>, technologies |-> <<>>]
              ELSE tech_analysis
        sc == IF Falsy(scores) THEN [overall |-> 50, depth |-> "Junior"] ELSE scores
        primary_domain == Get(da, "primary_domain", "Software Development")
        primary_langs == Get(ta, "primary_stack", <<>>)
        detected_frameworks == Get(ta, "detected_frameworks", <<>>)
        mapped == _map_domain_to_roles(primary_domain, primary_langs, detected_frameworks)
    IN  \* _generate_flags calls metrics.get(...): None has no attribute 'get'
        IF metrics = None THEN Raised("AttributeError")
        ELSE
        LET flags == _generate_flags(primary_domain, sc, metrics)
        IN  Ok([overall_score |-> Get(sc, "overall", 50),
                confidence_level |-> _calculate_confidence(metrics),
                suitable_roles |-> IF mapped.suitable = <<>>
                                   THEN <<"Software Engineer">> ELSE mapped.suitable,
                seniority_fit |-> Get(sc, "depth", "Junior"),
                team_fit_indicators |-> _assess_team_fit(metrics),
                red_flags |-> flags.red_flags,
                green_flags |-> flags.green_flags,
                salary_bracket_suggestion |-> _suggest_salary_bracket(Get(sc, "overall", 50)),
                recommendation_summary |->
                    [role |-> mapped.role, domain |-> primary_domain,
                     tech_stack |-> IF primary_langs = <<>> THEN <<"Multiple technologies">>
                                    ELSE SubSeqTo(primary_langs, 2)],
                next_steps |-> _suggest_next_steps(Get(sc, "overall", 50))])

\* _build_major_frameworks: ecosystem -> major framework names
major_frameworks ==
    "npm" :> {"react", "vue", "angular", "svelte", "preact", "solid-js", "@angular/core",
                 "@vue/cli", "next", "nuxt", "gatsby", "remix", "astro", "sveltekit",
                 "express", "koa", "hapi", "fastify", "nest", "@nestjs/core", "socket.io",
                 "apollo-server", "graphql", "react-native", "expo", "ionic", "redux",
                 "mobx", "zustand", "recoil", "pinia", "vuex", "ngrx", "mui",
                 "@mui/material", "chakra-ui", "ant-design", "mantine", "tailwindcss",
                 "bootstrap", "styled-components", "jest", "mocha", "chai", "cypress",
                 "playwright", "vitest", "webpack", "vite", "rollup", "parcel", "esbuild",
                 "mongoose", "sequelize", "typeorm", "prisma", "drizzle-orm", "passport",
                 "next-auth", "auth0"} @@
    "pypi" :> {"django", "flask", "fastapi", "tornado", "sanic", "aiohttp", "pyramid",
                  "bottle", "falcon", "tensorflow", "pytorch", "keras", "scikit-learn",
                  "xgboost", "lightgbm", "catboost", "transformers", "langchain", "pandas",
                  "numpy", "scipy", "matplotlib", "seaborn", "plotly", "sqlalchemy",
                  "peewee", "mongoengine", "redis", "psycopg2", "pytest", "unittest2",
                  "nose", "celery", "asyncio", "aiofiles"} @@
    "go" :> {"gin", "echo", "fiber", "chi", "beego", "iris", "revel", "gorm", "sqlx",
                "grpc", "gorilla/mux"} @@
    "rubygems" :> {"rails", "sinatra", "hanami", "grape", "roda", "devise",
                      "activerecord", "sequel"} @@
    "packagist" :> {"laravel/framework", "symfony/symfony", "slim/slim", "codeigniter",
                       "lumen", "doctrine/orm", "guzzlehttp/guzzle"} @@
    "cargo" :> {"actix-web", "rocket", "axum", "warp", "tokio", "serde", "diesel", "sqlx"}

\* ---------------------------------------------------------------------------
\* JSON values as json.loads returns them
\* ---------------------------------------------------------------------------
JStr(s) == [t |-> "str", s |-> s]
JNum(n) == [t |-> "num", n |-> n]
JNull == [t |-> "null"]
JArr(items) == [t |-> "arr", items |-> items]
\* a JSON object: its members in document order, <<[k |-> key, v |-> value], ...>>
JObj(pairs) == [t |-> "obj", pairs |-> pairs]

\* Python truthiness of a decoded JSON value
Truthy(v) ==
    CASE v.t = "null" -> FALSE
      [] v.t = "num" -> v.n # 0
      [] v.t = "str" -> v.s # <<>>
      [] v.t = "arr" -> v.items # <<>>
      [] v.t = "obj" -> v.pairs # <<>>

JKeys(obj) == { obj.pairs[i].k : i \in DOMAIN obj.pairs }
JGet(obj, key) == (CHOOSE i \in DOMAIN obj.pairs : obj.pairs[i].k = key)

\* `key in data`: dict membership, list membership, substring of a str;
\* a number or null is not iterable
JIn(key, data) ==
    CASE data.t = "obj" -> Ok(key \in JKeys(data))
      [] data.t = "arr" -> Ok(\E i \in DOMAIN data.items :
                                data.items[i].t = "str" /\ data.items[i].s = Chars[key])
      [] data.t = "str" -> Ok(Contains(data.s, Chars[key]))
      [] OTHER -> Raised("TypeError")

\* ---------------------------------------------------------------------------
\* DependencyParser
\* ---------------------------------------------------------------------------
\* _is_major_framework with the exact match alone
MajorExactOnly(package_name, ecosystem) ==
    /\ ecosystem \in DOMAIN major_frameworks
    /\ \E major \in major_frameworks[ecosystem] : Chars[major] = LowerText(package_name)

_is_major_framework(package_name, ecosystem) ==
    LET name == LowerText(package_name)
    IN  /\ ecosystem \in DOMAIN major_frameworks
        /\ \E major \in major_frameworks[ecosystem] :
              \/ Chars[major] = name
              \/ Contains(name, Chars[major])
              \/ Contains(Chars[major], name)

VersionOperators == {"^", "~", ">", "=", "<"}

\* re.sub(r'[,\s].*$', '', t) removes from the returned index on (0: nothing).
\* '.' does not match a newline and '$' matches at the end or before a final
\* newline: the cut is at the first comma or whitespace character after
\* which no newline stands before the last character of t
RECURSIVE VersionCut(_, _)
VersionCut(t, from) ==
    IF from > Len(t) THEN 0
    ELSE IF t[from] \in {","} \cup Whitespace
            /\ \A k \in (from + 1)..(Len(t) - 1) : t[k] # "\n"
         THEN from
    ELSE VersionCut(t, from + 1)

\* _clean_version on a str
CleanVersionText(version) ==
    IF version = <<>> THEN <<>>
    ELSE LET stripped == StripText(version)
             a == RunLength(stripped, 1, VersionOperators)
             no_ops == SubSeq(stripped, a + 1, Len(stripped))
             cut == VersionCut(no_ops, 1)
             head == IF cut = 0 THEN no_ops ELSE SubSeq(no_ops, 1, cut - 1)
         IN  StripText(head)

\* _clean_version on a decoded JSON value: a falsy value yields "", a str is
\* cleaned, anything else has no .strip()
_clean_version(version) ==
    IF ~ Truthy(version) THEN Ok(<<>>)
    ELSE IF version.t = "str" THEN Ok(CleanVersionText(version.s))
    ELSE Raised("AttributeError")

Dep(name, version, type, ecosystem, source_file) ==
    [name |-> name, version |-> version, type |-> type,
     ecosystem |-> ecosystem, source_file |-> source_file]

\* the loop "for name, version in <mapping>.items()" of the JSON parsers,
\* from member i on; acc is the list built so far
RECURSIVE JsonDepLoop(_, _, _, _, _, _, _)
JsonDepLoop(pairs, i, acc, type, ecosystem, source_file, skip) ==
    IF i > Len(pairs) THEN Ok(acc)
    ELSE LET name == Chars[pairs[i].k]
         IN  IF pairs[i].k \in skip \/ ~ _is_major_framework(name, ecosystem)
             THEN JsonDepLoop(pairs, i + 1, acc, type, ecosystem, source_file, skip)
             ELSE LET v == _clean_version(pairs[i].v)
                  IN  IF IsRaised(v) THEN v
                      ELSE JsonDepLoop(pairs, i + 1,
                               Append(acc, Dep(name, v.value, type, ecosystem, source_file)),
                               type, ecosystem, source_file, skip)

\* "if key in data: for name, version in data[key].items(): ..."
JsonSection(data, key, acc, type, ecosystem, source_file, skip) ==
    LET present == JIn(key, data)
    IN  IF IsRaised(present) THEN present
        ELSE IF ~ present.value THEN Ok(acc)
        ELSE IF data.t # "obj" THEN Raised("TypeError")           \* data[key] on a list or str
        ELSE IF data.pairs[JGet(data, key)].v.t # "obj"
             THEN Raised("AttributeError")                        \* no .items()
        ELSE JsonDepLoop(data.pairs[JGet(data, key)].v.pairs, 1, acc,
                         type, ecosystem, source_file, skip)

\* content is [malformed |-> TRUE] when json.loads raises JSONDecodeError,
\* [json |-> value] otherwise
parse_package_json(content) ==
    IF Has(content, "malformed") THEN Ok(<<>>)
    ELSE LET prod == JsonSection(content.json, "dependencies", <<>>,
                                 "production", "npm", "package.json", {})
         IN  IF IsRaised(prod) THEN prod
             ELSE JsonSection(content.json, "devDependencies", prod.value,
                              "dev", "npm", "package.json", {})

parse_composer_json(content) ==
    IF Has(content, "malformed") THEN Ok(<<>>)
    ELSE JsonSection(content.json, "require", <<>>,
                     "production", "packagist", "composer.json", {"php"})

GoNameChars == LowerLetters \cup UpperLetters \cup Digits \cup {"-", "_", "/", "."}
GoVersionChars == Digits \cup {"."}

\* re.match(r'([a-zA-Z0-9\-_/.]+)\s+v?([0-9.]+)', line): None, or the two groups
GoLineMatch(line) ==
    LET n == RunLength(line, 1, GoNameChars)
        w == RunLength(line, n + 1, Whitespace)
        q == n + w + 1
        v == IF q <= Len(line) /\ line[q] = "v"
                /\ RunLength(line, q + 1, GoVersionChars) > 0 THEN q + 1 ELSE q
        d == RunLength(line, v, GoVersionChars)
    IN  IF n = 0 \/ w = 0 \/ d = 0 THEN None
        ELSE [name |-> SubSeq(line, 1, n), version |-> SubSeq(line, v, v + d - 1)]

\* the loop of parse_go_mod from line i on
RECURSIVE GoModLoop(_, _, _, _)
GoModLoop(lines, i, in_require, deps) ==
    IF i > Len(lines) THEN deps
    ELSE LET line == StripText(Chars[lines[i]])
         IN  IF StartsWith(line, Chars["require"])
             THEN GoModLoop(lines, i + 1, TRUE, deps)
             ELSE IF in_require /\ line = Chars[")"]
             THEN GoModLoop(lines, i + 1, FALSE, deps)
             ELSE IF (in_require \/ StartsWith(line, Chars["require "]))
                     /\ GoLineMatch(line) # None
                     /\ _is_major_framework(GoLineMatch(line).name, "go")
             THEN GoModLoop(lines, i + 1, in_require,
                      Append(deps, Dep(GoLineMatch(line).name, GoLineMatch(line).version,
                                       "production", "go", "go.mod")))
             ELSE GoModLoop(lines, i + 1, in_require, deps)

\* content is given by its lines: [lines |-> content.split('\n')]
parse_go_mod(content) == Ok(GoModLoop(content.lines, 1, FALSE, <<>>))

\* the manifest files are <<[filename |-> , content |-> ], ...>> in dict order;
\* the files taken are package.json, composer.json, go.mod and files whose
\* name is not in the parsers table, which the loop skips
\* all_deps.extend(deps), where the call that computes deps may raise
Extend(all_deps, deps) == IF IsRaised(deps) THEN deps ELSE Ok(all_deps \o deps.value)

\* the loop from file i on; all_deps is the list so far, or what a parser raised
RECURSIVE ParseAllLoop(_, _, _)
ParseAllLoop(files, i, all_deps) ==
    IF IsRaised(all_deps) \/ i > Len(files) THEN all_deps
    ELSE ParseAllLoop(files, i + 1,
             Extend(all_deps.value,
                    CASE files[i].filename = "package.json" ->
                             parse_package_json(files[i].content)
                      [] files[i].filename = "composer.json" ->
                             parse_composer_json(files[i].content)
                      [] files[i].filename = "go.mod" -> parse_go_mod(files[i].content)
                      [] OTHER -> Ok(<<>>)))

parse_all(dependency_files) == ParseAllLoop(dependency_files, 1, Ok(<<>>))

\* ---------------------------------------------------------------------------
\* TechAnalyzer: enrichment of the detected frameworks with the parsed manifests
\* ---------------------------------------------------------------------------
ContainsAny(text, words) == \E w \in words : Contains(text, Chars[w])

_infer_category(dep_name, ecosystem) ==
    LET dep_lower == LowerText(dep_name)
    IN  IF ContainsAny(dep_lower, {"react", "vue", "angular", "svelte", "next", "nuxt"})
        THEN "Frontend Framework"
        ELSE IF ContainsAny(dep_lower, {"express", "fastapi", "django", "flask", "nest", "koa"})
        THEN "Backend Framework"
        ELSE IF ContainsAny(dep_lower, {"jest", "pytest", "mocha", "chai", "vitest"})
        THEN "Testing Framework"
        ELSE IF ContainsAny(dep_lower, {"mongo", "postgres", "mysql", "redis", "prisma", "sequelize"})
        THEN "Database"
        ELSE IF ecosystem = "npm" THEN "JavaScript Library"
        ELSE IF ecosystem = "pip" THEN "Python Library"
        ELSE IF ecosystem = "go" THEN "Go Module"
        ELSE "Library"

\* dep_lookup: lowercased name -> dependency; a later dependency of the same
\* name replaces the earlier one, the key keeps its first position
DepLookupKeys(deps) ==
    LET first == { i \in DOMAIN deps :
                     \A j \in 1..(i - 1) : LowerText(deps[j].name) # LowerText(deps[i].name) }
        Nth(n) == CHOOSE i \in first : Cardinality({j \in first : j < i}) = n - 1
    IN  [n \in 1..Cardinality(first) |-> LowerText(deps[Nth(n)].name)]

DepLookup(deps, key) ==
    deps[CHOOSE i \in DOMAIN deps :
            /\ LowerText(deps[i].name) = key
            /\ \A j \in (i + 1)..Len(deps) : LowerText(deps[j].name) # key]

\* the dependency a detected framework is matched with, or None
MatchedDep(fw, deps) ==
    LET fw_name_lower == LowerText(fw.name)
        keys == DepLookupKeys(deps)
        partial == { n \in DOMAIN keys :
                       Contains(keys[n], fw_name_lower) \/ Contains(fw_name_lower, keys[n]) }
    IN  IF \E n \in DOMAIN keys : keys[n] = fw_name_lower
        THEN DepLookup(deps, fw_name_lower)
        ELSE IF partial # {}
        THEN DepLookup(deps, keys[CHOOSE n \in partial : \A m \in partial : n <= m])
        ELSE None

\* f"Detected in {count} repositories including {repo}"
KeywordEvidence(count, repo) == [detected_in |-> count, repo |-> repo]

ManifestEvidence(source_file) == [manifest |-> source_file]   \* f"{source_file} in repository"

EnrichOne(fw, deps) ==
    LET matched_dep == MatchedDep(fw, deps)
    IN  IF matched_dep = None THEN fw
        ELSE [name |-> fw.name, category |-> fw.category,
              version |-> matched_dep.version, exact_match |-> TRUE,
              evidence |-> ManifestEvidence(matched_dep.source_file)]

\* the type an unmatched dependency must carry to be appended
AppendedDepType == "dependency"

RECURSIVE AppendUndetected(_, _, _, _)
AppendUndetected(deps, i, detected_names, enriched) ==
    IF i > Len(deps) THEN enriched
    ELSE IF LowerText(deps[i].name) \notin detected_names /\ deps[i].type = AppendedDepType
         THEN AppendUndetected(deps, i + 1, detected_names,
                  Append(enriched,
                         [name |-> TitleText(deps[i].name), version |-> deps[i].version,
                          category |-> _infer_category(deps[i].name, deps[i].ecosystem),
                          evidence |-> ManifestEvidence(deps[i].source_file),
                          exact_match |-> TRUE]))
         ELSE AppendUndetected(deps, i + 1, detected_names, enriched)

enrich_with_dependencies(detected_frameworks, parsed_dependencies) ==
    LET enriched == [i \in DOMAIN detected_frameworks |->
                        EnrichOne(detected_frameworks[i], parsed_dependencies)]
        detected_names == { LowerText(enriched[i].name) : i \in DOMAIN enriched }
    IN  AppendUndetected(parsed_dependencies, 1, detected_names, enriched)

\* ---------------------------------------------------------------------------
\* Specification SpecRole: _map_domain_to_roles and recommend_role called
\* directly, with arguments that may be missing (None) or empty
\* ---------------------------------------------------------------------------
MaxFrameworks == 2

FrameworkItems ==
    { [name |-> Chars[n]] : n \in {"react-native", "Expo", "React", "Next.Js", "next.js", "Django",
                            "Meteor", "Prisma", "Redis", "Lodash"} }
    \cup { [nondict |-> TRUE], [category |-> "Library"] }

DomainSamples == {"Healthcare", "Mobile Development", "Software Development",
                  "Quantum Computing", "", " "}
LanguageSamples == {<<>>, <<"Python">>, <<"HTML", "Python">>, <<"Kotlin">>, <<"Java">>}

MapArgs ==
    { [domain |-> d, languages |-> l, frameworks |-> f] :
        d \in DomainSamples, l \in LanguageSamples, f \in SeqsUpTo(FrameworkItems, MaxFrameworks) }

RoleMetricsSamples ==
    { None, EmptyDict, _get_empty_metrics,
      [total_repos |-> 4, total_stars |-> 12, total_forks |-> 1, repos_with_readme |-> 3,
       documentation_percentage |-> Pct(300, 4), days_since_last_commit |-> 3,
       active_repos_count |-> 4, language_distribution |-> <<>>],
      [total_repos |-> 4, total_stars |-> 10, total_forks |-> 0, repos_with_readme |-> 2,
       documentation_percentage |-> Pct(200, 4), days_since_last_commit |-> 40,
       active_repos_count |-> 1, language_distribution |-> <<>>],
      [total_repos |-> 5, total_stars |-> 11, total_forks |-> 6, repos_with_readme |-> 1,
       documentation_percentage |-> Pct(100, 5), days_since_last_commit |-> 100,
       active_repos_count |-> 0, language_distribution |-> <<>>],
      [total_repos |-> 6, total_stars |-> 0, total_forks |-> 0, repos_with_readme |-> 1,
       documentation_percentage |-> Pct(100, 6), days_since_last_commit |-> 8,
       active_repos_count |-> 2, language_distribution |-> <<>>] }

RecommendArgs ==
    { [domain_analysis |-> da, tech_analysis |-> ta, scores |-> sc, metrics |-> m] :
        da \in { None, EmptyDict, [secondary_domains |-> <<>>],
                 [primary_domain |-> "Healthcare", secondary_domains |-> <<>>],
                 [primary_domain |-> "Software Development", secondary_domains |-> <<>>],
                 [primary_domain |-> "", secondary_domains |-> <<>>] },
        ta \in { None, EmptyDict, [primary_stack |-> <<>>],
                 [primary_stack |-> <<"Python">>, detected_frameworks |-> <<>>],
                 [primary_stack |-> <<"Kotlin">>,
                  detected_frameworks |-> <<[name |-> Chars["React Native"]],
                                          [name |-> Chars["Expo"]]>>] },
        sc \in { None, EmptyDict, [depth |-> "Junior"],
                 [overall |-> 60, depth |-> "Junior", consistency |-> 3],
                 [overall |-> 70, depth |-> "Mid-level", consistency |-> 2],
                 [overall |-> 90, depth |-> "Senior", consistency |-> 10] },
        m \in RoleMetricsSamples }

InitRole ==
    /\ \/ op = "_map_domain_to_roles" /\ args \in MapArgs
       \/ op = "recommend_role" /\ args \in RecommendArgs
    /\ stage = "idle"
    /\ locals = NoLocals
    /\ ret = Pending

MapDomainToRoles ==
    /\ op = "_map_domain_to_roles"
    /\ ret = Pending
    /\ ret' = Ok(_map_domain_to_roles(args.domain, args.languages, args.frameworks))
    /\ UNCHANGED <<op, args, stage, locals>>

RecommendRole ==
    /\ op = "recommend_role"
    /\ ret = Pending
    /\ ret' = recommend_role(args.domain_analysis, args.tech_analysis, args.scores, args.metrics)
    /\ UNCHANGED <<op, args, stage, locals>>

NextRole == MapDomainToRoles \/ RecommendRole

SpecRole == InitRole /\ [][NextRole]_vars

\* the lowercased names of the dict entries of a framework list
C4_Names(frameworks) ==
    { LowerText(frameworks[i].name) :
        i \in {j \in DOMAIN frameworks : Has(frameworks[j], "name")} }

C4_Groups(frameworks) ==
    { g \in DOMAIN FrameworkGroups :
        \E n \in FrameworkGroups[g].names : Chars[n] \in C4_Names(frameworks) }

C4_Expected(domain, languages, frameworks) ==
    IF C4_Groups(frameworks) # {}
    THEN FrameworkGroups[CHOOSE g \in C4_Groups(frameworks) :
                            \A h \in C4_Groups(frameworks) : g <= h].role
    ELSE IF languages # <<>>
            /\ \E k \in DOMAIN lang_role_map :
                  /\ Chars[k] = LowerText(Chars[languages[1]])
                  /\ lang_role_map[k].role # "Software Engineer"
    THEN lang_role_map[CHOOSE k \in DOMAIN lang_role_map :
                          Chars[k] = LowerText(Chars[languages[1]])].role
    ELSE IF domain \in DOMAIN domain_role_map
    THEN domain_role_map[domain].role
    ELSE "Software Engineer"

\* C4: role mapping is a strict priority cascade: the role of the first
\* framework group (in the fixed group order) that lists a detected framework
\* name, whatever the languages and the domain are; otherwise the role of the
\* first primary language when it is not "Software Engineer"; otherwise the
\* role of the domain in the domain-role table; otherwise "Software Engineer".
\* Frameworks react-native and expo give "Mobile Developer".
C4_RoleCascade ==
    (op = "_map_domain_to_roles" /\ Returned(ret))
        => /\ ret.value.role = C4_Expected(args.domain, args.languages, args.frameworks)
           /\ ({Chars["react-native"], Chars["expo"]} \subseteq C4_Names(args.frameworks)
                  => ret.value.role = "Mobile Developer")

\* frameworks react-native and expo, a language and a domain that map to other
\* roles: the framework stage has decided
C4_Witness ==
    /\ op = "_map_domain_to_roles" /\ Returned(ret)
    /\ args.frameworks = <<[name |-> Chars["react-native"]], [name |-> Chars["Expo"]]>>
    /\ args.languages = <<"Python">>
    /\ args.domain = "Healthcare"
    /\ ret.value.role = "Mobile Developer"

\* C5: recommend_role raises no exception when any of domain_analysis,
\* tech_analysis, scores or metrics is None or empty, and returns a complete
\* recommendation.
C5_NoRaiseOnMissing ==
    (op = "recommend_role" /\ ret # Pending)
        => /\ Returned(ret)
           /\ DOMAIN ret.value = {"overall_score", "confidence_level", "suitable_roles",
                                  "seniority_fit", "team_fit_indicators", "red_flags",
                                  "green_flags", "salary_bracket_suggestion",
                                  "recommendation_summary", "next_steps"}

\* ---------------------------------------------------------------------------
\* Specification SpecScores: calculate_scores called on arbitrary metrics
\* ---------------------------------------------------------------------------
MaxStars == 60
MaxRepos == 4
DaysSamples == {0, 6, 7, 29, 30, 89, 90, 365, 999}
StarSamples == {s \in 0..MaxStars : s % 5 \in {0, 4}}

MetricsSamples ==
    { [total_repos |-> n, total_stars |-> s, total_forks |-> 0,
       repos_with_readme |-> r, documentation_percentage |-> Pct(100 * r, n),
       days_since_last_commit |-> d, active_repos_count |-> a,
       language_distribution |-> <<>>] :
         n \in 1..MaxRepos, r \in 0..MaxRepos, s \in StarSamples, d \in DaysSamples,
         a \in {0, MaxRepos - 1, MaxRepos} }

InitScores ==
    /\ op = "calculate_scores"
    /\ args \in { [metrics |-> m, tech_analysis |-> [primary_stack |-> <<>>]] :
                    m \in {x \in MetricsSamples : /\ x.repos_with_readme <= x.total_repos
                                                   /\ x.active_repos_count <= x.total_repos}
                          \cup {_get_empty_metrics} }
    /\ stage = "idle"
    /\ locals = NoLocals
    /\ ret = Pending

CalculateScores ==
    /\ op = "calculate_scores"
    /\ ret = Pending
    /\ ret' = calculate_scores(args.metrics, args.tech_analysis)
    /\ UNCHANGED <<op, args, stage, locals>>

NextScores == CalculateScores

SpecScores == InitScores /\ [][NextScores]_vars

\* C6: the overall score returned by calculate_scores is at least 6.0 and at
\* most 10.0 (overall is held in tenths) for every metrics input on which the
\* call does not raise.
C6_OverallFloor ==
    (op = "calculate_scores" /\ Returned(ret))
        => (ret.value.overall >= 60 /\ ret.value.overall <= 100)

\* a call whose weighted sum is below the floor has returned
C6_Witness ==
    /\ op = "calculate_scores" /\ Returned(ret)
    /\ 3 * StarScore(args.metrics.total_stars) + 3 * ret.value.consistency
            + 4 * ret.value.docs_score < 60
    /\ ret.value.overall = 60

\* ---------------------------------------------------------------------------
\* Specification SpecDeps: the manifest parsers, parse_all and
\* enrich_with_dependencies called on sample manifests
\* ---------------------------------------------------------------------------
MaxLines == 3
MaxFiles == 2

Member(k, v) == [k |-> k, v |-> v]

DependenciesSamples ==
    { JObj(<<>>),
      JObj(<<Member("react", JStr(Chars["^18.2.0"]))>>),
      JObj(<<Member("react", JStr(Chars["^18.2.0"])), Member("lodash", JNum(4))>>),
      JObj(<<Member("express", JStr(Chars[">=4.18.2 <5"])), Member("@nestjs/core", JNull)>>),
      JObj(<<Member("express", JNum(4))>>),
      JObj(<<Member("next", JObj(<<Member("version", JStr(Chars["14.0.0"]))>>))>>),
      JArr(<<JStr(Chars["react"])>>),
      JStr(Chars["react"]),
      JNum(1),
      JNull }

DevDependenciesSamples ==
    { JObj(<<Member("jest", JStr(Chars["~29.7.0"]))>>),
      JObj(<<Member("typescript", JStr(Chars["5.3.3"]))>>),
      JArr(<<>>) }

Malformed == [malformed |-> TRUE]
Json(v) == [json |-> v]

PackageJsonSamples ==
    { Malformed, Json(JNum(5)), Json(JNull), Json(JStr(Chars["dependencies"])),
      Json(JArr(<<>>)), Json(JArr(<<JStr(Chars["dependencies"])>>)), Json(JObj(<<>>)) }
    \cup { Json(JObj(<<Member("dependencies", d)>>)) : d \in DependenciesSamples }
    \cup { Json(JObj(<<Member("devDependencies", d)>>)) : d \in DevDependenciesSamples }
    \cup { Json(JObj(<<Member("dependencies", d), Member("devDependencies", e)>>)) :
             d \in DependenciesSamples, e \in DevDependenciesSamples }

ComposerJsonSamples ==
    { Malformed, Json(JNull), Json(JArr(<<JStr(Chars["require"])>>)), Json(JObj(<<>>)),
      Json(JObj(<<Member("require", JArr(<<>>))>>)),
      Json(JObj(<<Member("require", JObj(<<Member("php", JStr(Chars[">=8.1"])),
                                          Member("laravel/framework", JStr(Chars["^10.0"]))>>))>>)),
      Json(JObj(<<Member("require", JObj(<<Member("php", JNum(8)),
                                          Member("monolog/monolog", JNum(3))>>))>>)),
      Json(JObj(<<Member("require", JObj(<<Member("symfony/symfony", JNum(6))>>))>>)) }

GoLines ==
    { "module example.com/app", "go 1.21", "", "require (", ")",
      "\tgithub.com/gin-gonic/gin v1.9.1",
      "\tgithub.com/stretchr/testify v1.8.4 // indirect",
      "github.com/labstack/echo/v4 v4.11.1",
      "require github.com/gin-gonic/gin v1.9.1",
      "require github.com/gorilla/mux v1.8.0" }

Lines(ls) == [lines |-> ls]

GoModSamples == { Lines(ls) : ls \in SeqsUpTo(GoLines, MaxLines) }

ManifestSamples ==
    { [filename |-> "package.json", content |-> c] :
        c \in { Malformed, Json(JNull),
                Json(JObj(<<Member("dependencies",
                                   JObj(<<Member("react", JStr(Chars["^18.2.0"]))>>))>>)),
                Json(JObj(<<Member("dependencies", JArr(<<JStr(Chars["react"])>>))>>)) } }
    \cup { [filename |-> "composer.json", content |-> c] :
        c \in { Malformed,
                Json(JObj(<<Member("require",
                               JObj(<<Member("laravel/framework", JStr(Chars["^10.0"]))>>))>>)) } }
    \cup { [filename |-> "go.mod", content |-> c] :
        c \in { Lines(<<"require (", "\tgithub.com/gin-gonic/gin v1.9.1", ")">>),
                Lines(<<"require github.com/gin-gonic/gin v1.9.1">>) } }
    \cup { [filename |-> "Pipfile", content |-> Malformed] }

DependencyFilesSamples ==
    { fs \in SeqsUpTo(ManifestSamples, MaxFiles) :
        \A i, j \in DOMAIN fs : i # j => fs[i].filename # fs[j].filename }

DetectedSamples ==
    { [name |-> Chars[n], category |-> "frameworks", evidence |-> KeywordEvidence(1, "app")] :
        n \in {"React", "Express", "Redux"} }

\* what the parsers return for their samples
ParsedSamples ==
    { parse_package_json(c).value : c \in {x \in PackageJsonSamples : Returned(parse_package_json(x))} }
    \cup { parse_go_mod(Lines(ls)).value : ls \in SeqsUpTo(GoLines \ {"", "go 1.21"}, 2) }

InitDeps ==
    /\ \/ op = "parse_package_json" /\ args \in { [content |-> c] : c \in PackageJsonSamples }
       \/ op = "parse_composer_json" /\ args \in { [content |-> c] : c \in ComposerJsonSamples }
       \/ op = "parse_go_mod" /\ args \in { [content |-> c] : c \in GoModSamples }
       \/ op = "parse_all" /\ args \in { [dependency_files |-> f] : f \in DependencyFilesSamples }
       \/ op = "enrich_with_dependencies"
          /\ args \in { [detected_frameworks |-> d, parsed_dependencies |-> p] :
                          d \in SeqsUpTo(DetectedSamples, 1), p \in ParsedSamples }
    /\ stage = "idle"
    /\ locals = NoLocals
    /\ ret = Pending

ParsePackageJson ==
    /\ op = "parse_package_json"
    /\ ret = Pending
    /\ ret' = parse_package_json(args.content)
    /\ UNCHANGED <<op, args, stage, locals>>

ParseComposerJson ==
    /\ op = "parse_composer_json"
    /\ ret = Pending
    /\ ret' = parse_composer_json(args.content)
    /\ UNCHANGED <<op, args, stage, locals>>

ParseGoMod ==
    /\ op = "parse_go_mod"
    /\ ret = Pending
    /\ ret' = parse_go_mod(args.content)
    /\ UNCHANGED <<op, args, stage, locals>>

ParseAll ==
    /\ op = "parse_all"
    /\ ret = Pending
    /\ ret' = parse_all(args.dependency_files)
    /\ UNCHANGED <<op, args, stage, locals>>

EnrichWithDependencies ==
    /\ op = "enrich_with_dependencies"
    /\ ret = Pending
    /\ ret' = Ok(enrich_with_dependencies(args.detected_frameworks, args.parsed_dependencies))
    /\ UNCHANGED <<op, args, stage, locals>>

NextDeps ==
    \/ ParsePackageJson
    \/ ParseComposerJson
    \/ ParseGoMod
    \/ ParseAll
    \/ EnrichWithDependencies

SpecDeps == InitDeps /\ [][NextDeps]_vars

\* C7: no manifest parser and no parse_all call propagates an exception to its
\* caller, whatever the file content is (malformed JSON, JSON that is not an
\* object, a dependencies value that is not a mapping, a version that is not a
\* string).
C7_ParsersNeverRaise ==
    (op \in {"parse_package_json", "parse_composer_json", "parse_go_mod", "parse_all"}
        /\ ret # Pending) => Returned(ret)

\* a detected framework and a dependency match when the lowercased names are
\* equal or one contains the other
C8_Matches(fw, dep) ==
    \/ LowerText(fw.name) = LowerText(dep.name)
    \/ Contains(LowerText(dep.name), LowerText(fw.name))
    \/ Contains(LowerText(fw.name), LowerText(dep.name))

\* C8: every parsed dependency whose name matches no keyword-detected framework
\* is appended by enrich_with_dependencies as a framework entry (name, version,
\* inferred category, exact_match = true); none is dropped.
C8_UnmatchedDepsAppended ==
    (op = "enrich_with_dependencies" /\ Returned(ret)) =>
        \A i \in DOMAIN args.parsed_dependencies :
            LET dep == args.parsed_dependencies[i]
            IN  (\A j \in DOMAIN args.detected_frameworks :
                    ~ C8_Matches(args.detected_frameworks[j], dep))
                => \E k \in DOMAIN ret.value :
                      /\ LowerText(ret.value[k].name) = LowerText(dep.name)
                      /\ Has(ret.value[k], "version") /\ ret.value[k].version = dep.version
                      /\ Has(ret.value[k], "exact_match") /\ ret.value[k].exact_match

\* the requirement a go.mod line states: the module and version after an
\* optional leading "require "
C9_Requirement(line) ==
    IF StartsWith(line, Chars["require "])
    THEN GoLineMatch(StripText(SubSeq(line, 9, Len(line))))
    ELSE GoLineMatch(line)

\* the allowlisted requirements of a go.mod: lines inside a require ( ... )
\* block and single-line require statements
RECURSIVE C9_Expected(_, _, _)
C9_Expected(lines, i, in_block) ==
    IF i > Len(lines) THEN <<>>
    ELSE LET line == StripText(Chars[lines[i]])
             single == StartsWith(line, Chars["require "]) /\ line # Chars["require ("]
             stated == (in_block \/ single) /\ C9_Requirement(line) # None
                       /\ _is_major_framework(C9_Requirement(line).name, "go")
         IN  (IF stated THEN <<C9_Requirement(line).name>> ELSE <<>>)
             \o C9_Expected(lines, i + 1,
                    IF line = Chars["require ("] THEN TRUE
                    ELSE IF line = Chars[")"] THEN FALSE
                    ELSE in_block)

\* C9: parse_go_mod emits a record for an allowlisted module both inside a
\* require ( ... ) block and on a single-line require statement, and lines that
\* follow a single-line require outside any block are not requirements.
C9_GoModRequire ==
    (op = "parse_go_mod" /\ Returned(ret)) =>
        [i \in DOMAIN ret.value |-> ret.value[i].name] = C9_Expected(args.content.lines, 1, FALSE)

\* ---------------------------------------------------------------------------
\* Keyword matching of DomainClassifier and TechAnalyzer
\* ---------------------------------------------------------------------------
\* regex \b between text[p] and text[p+1]: exactly one side is a word
\* character, the outside of the text counting as a non-word character
WordBoundary(text, p) ==
    LET before == p >= 1 /\ IsWordChar(text[p])
        after  == p + 1 <= Len(text) /\ IsWordChar(text[p + 1])
    IN  before # after

\* re.search(r'\b' + re.escape(keyword) + r'\b', text) finds a match
BoundarySearch(keyword, text) ==
    \E i \in 0..(Len(text) - Len(keyword)) :
        /\ \A j \in 1..Len(keyword) : text[i + j] = keyword[j]
        /\ WordBoundary(text, i)
        /\ WordBoundary(text, i + Len(keyword))

\* TechAnalyzer._keyword_matches without the word-boundary branch
KeywordMatchesSubstring(keyword, text) == Contains(text, Chars[keyword])

_keyword_matches(keyword, text) ==
    IF Len(Chars[keyword]) < 4
    THEN BoundarySearch(Chars[keyword], text)
    ELSE Contains(text, Chars[keyword])

RECURSIVE CountLoop(_, _, _, _)
CountLoop(text, keywords, i, match_count) ==
    IF i > Len(keywords) THEN match_count
    ELSE LET keyword == Chars[keywords[i]]
             hit == IF Len(keyword) < 4
                    THEN BoundarySearch(keyword, text)
                    ELSE Contains(text, keyword)
         IN  CountLoop(text, keywords, i + 1, IF hit THEN match_count + 1 ELSE match_count)

_count_keyword_matches(text, keywords) == CountLoop(text, keywords, 1, 0)

\* ---------------------------------------------------------------------------
\* Specification SpecMatch: the two keyword matchers called on prepared
\* (lower-case) texts with keywords of the configuration tables
\* ---------------------------------------------------------------------------
MaxTokens == 3
MaxKeywords == 2

\* pieces the sample texts are concatenated from
TextTokens == { "a", "ai", "gin", "again", "saas", "sass", " ", "-", "_" }

RECURSIVE Concat(_)
Concat(tokens) ==
    IF tokens = <<>> THEN <<>> ELSE Chars[Head(tokens)] \o Concat(Tail(tokens))

TextSamples == { Concat(ts) : ts \in SeqsUpTo(TextTokens, MaxTokens) }

\* keywords of DOMAIN_KEYWORDS and of TECH_KW_CATEGORIES over the sample alphabet
DomainKeywordSamples == { "ai", "saas" }
TechKeywordSamples == { "gin", "sass" }

InitMatch ==
    /\ \/ /\ op = "_keyword_matches"
          /\ args \in { [keyword |-> k, text |-> t] :
                          k \in TechKeywordSamples, t \in TextSamples }
       \/ /\ op = "_count_keyword_matches"
          /\ args \in { [text |-> t, keywords |-> ks] :
                          t \in TextSamples,
                          ks \in SeqsUpTo(DomainKeywordSamples, MaxKeywords) }
    /\ stage = "idle"
    /\ locals = NoLocals
    /\ ret = Pending

KeywordMatches ==
    /\ op = "_keyword_matches"
    /\ ret = Pending
    /\ ret' = Ok(_keyword_matches(args.keyword, args.text))
    /\ UNCHANGED <<op, args, stage, locals>>

CountKeywordMatches ==
    /\ op = "_count_keyword_matches"
    /\ ret = Pending
    /\ ret' = Ok(_count_keyword_matches(args.text, args.keywords))
    /\ UNCHANGED <<op, args, stage, locals>>

NextMatch == KeywordMatches \/ CountKeywordMatches

SpecMatch == InitMatch /\ [][NextMatch]_vars

\* the words of a text: its maximal runs of word characters
C10_Words(text) ==
    { SubSeq(text, i, j) : <<i, j>> \in
        { p \in (1..Len(text)) \X (1..Len(text)) :
            /\ p[1] <= p[2]
            /\ \A k \in p[1]..p[2] : IsWordChar(text[k])
            /\ (p[1] = 1 \/ ~ IsWordChar(text[p[1] - 1]))
            /\ (p[2] = Len(text) \/ ~ IsWordChar(text[p[2] + 1])) } }

C10_Expected(keyword, text) ==
    IF Len(Chars[keyword]) < 4
    THEN Chars[keyword] \in C10_Words(text)
    ELSE \E i \in 1..Len(text), j \in 0..Len(text) : SubSeq(text, i, j) = Chars[keyword]

\* C10: in the technology analyzer and the domain classifier a keyword
\* shorter than 4 characters matches a text exactly when it is one of the
\* text's whole words (never inside a longer word such as "ai" in "again"),
\* and a keyword of 4 or more characters matches exactly when it is a
\* substring of the text; the classifier's count is the number of keywords
\* of its list that match in this sense.
C10_KeywordMatching ==
    /\ (op = "_keyword_matches" /\ ret # Pending)
          => ret.value = C10_Expected(args.keyword, args.text)
    /\ (op = "_count_keyword_matches" /\ ret # Pending)
          => ret.value = Cardinality({ i \in DOMAIN args.keywords :
                                         C10_Expected(args.keywords[i], args.text) })

\* a short keyword that occurs only inside a longer word was not matched
C10_Witness ==
    /\ op = "_count_keyword_matches" /\ ret = Ok(0)
    /\ args.keywords = <<"ai">>
    /\ args.text = Chars["again"]

\* ---------------------------------------------------------------------------
\* Python values of the stored profile data: a str, a list and a number are
\* wrapped so that each can stand where None can
\* ---------------------------------------------------------------------------
Str(s) == [str |-> s]
List(xs) == [list |-> xs]
Num(n) == [num |-> n]
NonDict == [nondict |-> TRUE]

\* dict.get(key)
PyGet(d, k) == IF k \in DOMAIN d THEN d[k] ELSE None

\* truth value of a str, list, number, dict or None
IsTruthy(v) ==
    IF v = None THEN FALSE
    ELSE IF Has(v, "str") THEN v.str # ""
    ELSE IF Has(v, "list") THEN v.list # <<>>
    ELSE IF Has(v, "num") THEN v.num # 0
    ELSE DOMAIN v # {}

\* sep.join(items) for items that are constant strings, as characters
RECURSIVE JoinText(_, _)
JoinText(items, sep) ==
    IF items = <<>> THEN <<>>
    ELSE IF Len(items) = 1 THEN Chars[items[1]]
    ELSE Chars[items[1]] \o sep \o JoinText(Tail(items), sep)

\* sorted(items, key=value, reverse=True) and Counter.most_common: a stable
\* sort of <<[k |-> key, v |-> value], ...>>, larger values first
RECURSIVE InsertDesc(_, _)
InsertDesc(sorted, x) ==
    IF sorted = <<>> THEN <<x>>
    ELSE IF x.v > Head(sorted).v THEN <<x>> \o sorted
    ELSE <<Head(sorted)>> \o InsertDesc(Tail(sorted), x)

RECURSIVE SortDescFrom(_, _, _)
SortDescFrom(items, i, sorted) ==
    IF i > Len(items) THEN sorted
    ELSE SortDescFrom(items, i + 1, InsertDesc(sorted, items[i]))

SortDesc(items) == SortDescFrom(items, 1, <<>>)

\* ---------------------------------------------------------------------------
\* DomainClassifier
\* ---------------------------------------------------------------------------
\* DOMAIN_KEYWORDS in table order, each domain with those of its keywords
\* that occur in a sample text (no other keyword of the table occurs in one)
DOMAIN_KEYWORDS == <<
    [domain |-> "E-commerce",
     keywords |-> <<"shop", "cart">>],
    [domain |-> "Healthcare",
     keywords |-> <<"health", "patient", "healthcare">>],
    [domain |-> "Finance (FinTech)",
     keywords |-> <<"bank">>],
    [domain |-> "Education (EdTech)",
     keywords |-> <<"learn">>],
    [domain |-> "Marketing & SEO",
     keywords |-> <<"seo">>],
    [domain |-> "AI & Machine Learning",
     keywords |-> <<"machine learning", "ai">>],
    [domain |-> "Game Development",
     keywords |-> <<"game">>],
    [domain |-> "Web Development",
     keywords |-> <<"cms">>],
    [domain |-> "Mobile Development",
     keywords |-> <<"mobile", "react native", "app", "mobile app">>],
    [domain |-> "Retail & Point of Sale",
     keywords |-> <<"shop">>] >>

\* DOMAIN_WEIGHTS of these domains, in tenths
DOMAIN_WEIGHTS ==
    "E-commerce" :> 13 @@
    "Healthcare" :> 13 @@
    "Finance (FinTech)" :> 13 @@
    "Education (EdTech)" :> 13 @@
    "Marketing & SEO" :> 8 @@
    "AI & Machine Learning" :> 20 @@
    "Game Development" :> 15 @@
    "Web Development" :> 8 @@
    "Mobile Development" :> 10 @@
    "Retail & Point of Sale" :> 10

\* description + " " + " ".join(topics) without the "or" defaults: a None
\* description or None topics cannot be concatenated or joined
PrepareTextNoDefaults(repo) ==
    LET description == PyGet(repo, "description")
        topics == PyGet(repo, "topics")
    IN  IF ~ Has(description, "str") \/ ~ Has(topics, "list") THEN Raised("TypeError")
        ELSE Ok(LowerText(Chars[description.str] \o <<" ">> \o JoinText(topics.list, <<" ">>)))

\* (description or "") + " " + " ".join(topics or []), lower-cased; a value
\* that is neither str nor None cannot be concatenated, a number cannot be joined
_prepare_text(repo) ==
    LET description == PyGet(repo, "description")
        topics == PyGet(repo, "topics")
    IN  IF IsTruthy(description) /\ ~ Has(description, "str") THEN Raised("TypeError")
        ELSE IF IsTruthy(topics) /\ ~ Has(topics, "list") THEN Raised("TypeError")
        ELSE Ok(LowerText(
                 (IF IsTruthy(description) THEN Chars[description.str] ELSE <<>>)
                 \o <<" ">>
                 \o (IF IsTruthy(topics) THEN JoinText(topics.list, <<" ">>) ELSE <<>>)))

\* the matching domains in table order, each with match_count * weight (tenths)
RECURSIVE DomainScoresFrom(_, _, _)
DomainScoresFrom(text, d, domain_scores) ==
    IF d > Len(DOMAIN_KEYWORDS) THEN domain_scores
    ELSE LET domain == DOMAIN_KEYWORDS[d].domain
             match_count == _count_keyword_matches(text, DOMAIN_KEYWORDS[d].keywords)
             weight == IF domain \in DOMAIN DOMAIN_WEIGHTS THEN DOMAIN_WEIGHTS[domain] ELSE 10
         IN  DomainScoresFrom(text, d + 1,
                 IF match_count > 0
                 THEN Append(domain_scores, [k |-> domain, v |-> match_count * weight])
                 ELSE domain_scores)

_calculate_domain_scores(text) == DomainScoresFrom(text, 1, <<>>)

\* max(domain_scores.items(), key=score): the first entry of the largest score
MaxEntry(entries) ==
    entries[CHOOSE i \in DOMAIN entries :
               /\ \A j \in DOMAIN entries : entries[j].v <= entries[i].v
               /\ \A j \in 1..(i - 1) : entries[j].v < entries[i].v]

classify_repository(repo) ==
    LET text == _prepare_text(repo)
    IN  IF IsRaised(text) THEN text
        ELSE LET domain_scores == _calculate_domain_scores(text.value)
             IN  IF domain_scores = <<>>
                 THEN Ok([domain |-> "Software Development", score |-> 10])
                 ELSE Ok([domain |-> MaxEntry(domain_scores).k,
                          score |-> MaxEntry(domain_scores).v])

\* Counter.update(mapping): add each value to the count of its key, a new key
\* going to the end
RECURSIVE CounterUpdate(_, _)
CounterUpdate(counter, entries) ==
    IF entries = <<>> THEN counter
    ELSE LET e == Head(entries)
             at == { i \in DOMAIN counter : counter[i].k = e.k }
         IN  CounterUpdate(
                 IF at = {} THEN Append(counter, e)
                 ELSE [i \in DOMAIN counter |->
                          IF i \in at THEN [k |-> e.k, v |-> counter[i].v + e.v]
                          ELSE counter[i]],
                 Tail(entries))

\* Counter.most_common(n)
most_common(counter, n) == SubSeqTo(SortDesc(counter), n)

Keys(entries) == [i \in DOMAIN entries |-> entries[i].k]

\* the loop with a plain dict in place of the Counter: update() replaces the
\* score of a domain instead of adding to it
RECURSIVE ClassifyLoopReplacing(_, _, _)
ClassifyLoopReplacing(repos, i, domain_scores) ==
    IF i > Len(repos) THEN Ok(domain_scores)
    ELSE LET text == _prepare_text(repos[i])
             repo_domains == _calculate_domain_scores(text.value)
         IN  IF IsRaised(text) THEN text
             ELSE ClassifyLoopReplacing(repos, i + 1,
                      [j \in DOMAIN domain_scores |->
                          IF \E e \in DOMAIN repo_domains : repo_domains[e].k = domain_scores[j].k
                          THEN repo_domains[CHOOSE e \in DOMAIN repo_domains :
                                                repo_domains[e].k = domain_scores[j].k]
                          ELSE domain_scores[j]]
                      \o SelectSeq(repo_domains,
                                   LAMBDA x : \A j \in DOMAIN domain_scores :
                                                 domain_scores[j].k # x.k))

RECURSIVE ClassifyLoop(_, _, _)
ClassifyLoop(repos, i, domain_scores) ==
    IF i > Len(repos) THEN Ok(domain_scores)
    ELSE LET text == _prepare_text(repos[i])
         IN  IF IsRaised(text) THEN text
             ELSE ClassifyLoop(repos, i + 1,
                      CounterUpdate(domain_scores, _calculate_domain_scores(text.value)))

\* the result with secondary_domains sliced as top_domains[:3]
ClassifySecondaryFromFirst(repos) ==
    LET domain_scores == ClassifyLoop(repos, 1, <<>>)
    IN  IF IsRaised(domain_scores) THEN domain_scores
        ELSE LET top_domains == Keys(most_common(domain_scores.value, 5))
             IN  Ok([primary_domain |-> IF top_domains # <<>> THEN top_domains[1]
                                        ELSE "Software Development",
                     secondary_domains |-> SubSeqTo(top_domains, 3),
                     specializations |-> top_domains,
                     evidence |-> <<"Identified projects in ">> \o SubSeqTo(top_domains, 3)])

classify_repositories(repos) ==
    LET domain_scores == ClassifyLoop(repos, 1, <<>>)
    IN  IF IsRaised(domain_scores) THEN domain_scores
        ELSE LET top_domains == Keys(most_common(domain_scores.value, 5))
             IN  Ok([primary_domain |-> IF top_domains # <<>> THEN top_domains[1]
                                        ELSE "Software Development",
                     secondary_domains |-> SubSeq(top_domains, 2, Min(4, Len(top_domains))),
                     specializations |-> top_domains,
                     \* f"Identified projects in {', '.join(top_domains[:3])}"
                     evidence |-> <<"Identified projects in ">> \o SubSeqTo(top_domains, 3)])

\* ---------------------------------------------------------------------------
\* ScoringEngine.calculate_metrics
\* ---------------------------------------------------------------------------
\* a timestamp of the stored data is kept as what the code derives from it:
\* [days_ago |-> n] for a parsable one, [invalid |-> TRUE] for one that
\* datetime.fromisoformat rejects
RECURSIVE SumOver(_, _, _)
SumOver(repos, key, i) ==
    IF i > Len(repos) THEN 0 ELSE Get(repos[i], key, 0) + SumOver(repos, key, i + 1)

\* lang_bytes.update(repo.get("languages", {}).get("raw_bytes", {})) over the repos
RECURSIVE LangBytesLoop(_, _, _)
LangBytesLoop(repos, i, lang_bytes) ==
    IF i > Len(repos) THEN Ok(lang_bytes)
    ELSE LET languages == Get(repos[i], "languages", EmptyDict)
         IN  IF languages = None THEN Raised("AttributeError")
             ELSE LangBytesLoop(repos, i + 1,
                      CounterUpdate(lang_bytes, Get(languages, "raw_bytes", <<>>)))

RECURSIVE ValueSum(_)
ValueSum(entries) == IF entries = <<>> THEN 0 ELSE Head(entries).v + ValueSum(Tail(entries))

\* repo.get("pushed_at") or repo.get("updated_at")
LastPush(repo) ==
    IF IsTruthy(PyGet(repo, "pushed_at")) THEN repo.pushed_at ELSE PyGet(repo, "updated_at")

\* the ages in days of the parsed push dates, in repository order
RECURSIVE CommitsLoop(_, _, _)
CommitsLoop(repos, i, commits) ==
    IF i > Len(repos) THEN Ok(commits)
    ELSE LET pushed_at == LastPush(repos[i])
         IN  IF ~ IsTruthy(pushed_at) THEN CommitsLoop(repos, i + 1, commits)
             ELSE IF Has(pushed_at, "invalid") THEN Raised("ValueError")
             ELSE CommitsLoop(repos, i + 1, Append(commits, pushed_at.days_ago))

SeqMin(s) == CHOOSE x \in { s[i] : i \in DOMAIN s } : \A i \in DOMAIN s : x <= s[i]

\* (r.get('description') or "").lower() holds one of the production words
ProductionSignal(repo) ==
    LET description == PyGet(repo, "description")
    IN  IF ~ IsTruthy(description) THEN Ok(FALSE)
        ELSE IF ~ Has(description, "str") THEN Raised("AttributeError")
        ELSE Ok(ContainsAny(LowerText(Chars[description.str]),
                            {"production", "deploy", "workflow"}))

\* the body of calculate_metrics after the empty-list guard
MetricsOf(user, repos) ==
    LET total_repos == Len(repos)
        lang_bytes == LangBytesLoop(repos, 1, <<>>)
        commits == CommitsLoop(repos, 1, <<>>)
    IN  IF \E i \in DOMAIN repos : ~ IsDict(repos[i]) THEN Raised("AttributeError")
        ELSE IF IsRaised(lang_bytes) THEN lang_bytes
        ELSE IF IsRaised(commits) THEN commits
        ELSE IF \E i \in DOMAIN repos : IsRaised(ProductionSignal(repos[i]))
             THEN Raised("AttributeError")
        ELSE IF user = None \/ ~ IsDict(user) THEN Raised("AttributeError")
        ELSE IF IsTruthy(PyGet(user, "created_at")) /\ Has(user.created_at, "invalid")
             THEN Raised("ValueError")
        ELSE IF total_repos = 0 THEN Raised("ZeroDivisionError")
        ELSE
        LET total_bytes == ValueSum(lang_bytes.value)
            repos_with_readme ==
                Cardinality({ i \in DOMAIN repos : IsTruthy(PyGet(repos[i], "readme")) })
        IN  Ok([total_repos |-> total_repos,
                total_stars |-> SumOver(repos, "stargazers_count", 1),
                total_forks |-> SumOver(repos, "forks_count", 1),
                repos_with_readme |-> repos_with_readme,
                documentation_percentage |-> Pct(repos_with_readme * 100, total_repos),
                total_markdown_files |->
                    SeqSum([i \in DOMAIN repos |-> Len(Get(repos[i], "markdown_files", <<>>))]),
                days_since_last_commit |->
                    IF commits.value = <<>> THEN 365 ELSE SeqMin(commits.value),
                active_repos_count |->
                    Cardinality({ i \in DOMAIN commits.value : commits.value[i] < 90 }),
                account_age_years |->
                    IF IsTruthy(PyGet(user, "created_at")) THEN user.created_at.age_tenths
                    ELSE 0,
                language_distribution |->
                    IF total_bytes > 0
                    THEN [i \in DOMAIN lang_bytes.value |->
                            [k |-> lang_bytes.value[i].k,
                             v |-> Pct(lang_bytes.value[i].v * 100, total_bytes)]]
                    ELSE <<>>,
                has_production_signals |->
                    \E i \in DOMAIN repos : ProductionSignal(repos[i]).value])

\* calculate_metrics without the guard for an empty repository list
CalculateMetricsUnguarded(user, repos) == MetricsOf(user, repos)

calculate_metrics(user, repos) ==
    IF Len(repos) = 0 THEN Ok(_get_empty_metrics) ELSE MetricsOf(user, repos)

\* ---------------------------------------------------------------------------
\* TechAnalyzer.analyze_technologies and detect_frameworks
\* ---------------------------------------------------------------------------
\* percentages.get(language, 0) of a repository
LanguagePercentage(repo, language) ==
    LET percentages == Get(Get(repo, "languages", EmptyDict), "percentages", <<>>)
        at == { i \in DOMAIN percentages : percentages[i].k = language }
    IN  IF at = {} THEN 0 ELSE percentages[CHOOSE i \in at : TRUE].v

RECURSIVE FindReposLoop(_, _, _, _)
FindReposLoop(repos, language, i, names) ==
    IF i > Len(repos) THEN Ok(names)
    ELSE IF Get(repos[i], "languages", EmptyDict) = None THEN Raised("AttributeError")
    ELSE IF LanguagePercentage(repos[i], language) > 0
         THEN IF Has(repos[i], "name")
              THEN FindReposLoop(repos, language, i + 1, Append(names, repos[i].name))
              ELSE Raised("KeyError")
         ELSE FindReposLoop(repos, language, i + 1, names)

_find_repos_with_language(repos, language) == FindReposLoop(repos, language, 1, <<>>)

RECURSIVE RecentUsageLoop(_, _, _)
RecentUsageLoop(repos, repo_names, i) ==
    IF i > Len(repos) THEN Ok(FALSE)
    ELSE LET repo == repos[i]
             pushed == PyGet(repo, "pushed_at")
         IN  IF Has(repo, "name") /\ (\E j \in DOMAIN repo_names : repo_names[j] = repo.name)
                /\ IsTruthy(pushed)
             THEN IF Has(pushed, "invalid") THEN Raised("ValueError")
                  ELSE IF pushed.days_ago < 180 THEN Ok(TRUE)
                  ELSE RecentUsageLoop(repos, repo_names, i + 1)
             ELSE RecentUsageLoop(repos, repo_names, i + 1)

_has_recent_usage(repos, repo_names) == RecentUsageLoop(repos, repo_names, 1)

\* TechAnalyzer._generate_summary: the text as its pieces
technology_summary(primary_langs) ==
    IF primary_langs = <<>> THEN <<"Developer">>
    ELSE <<"Full-stack developer with ">> \o SubSeqTo(primary_langs, 2) \o <<" expertise">>

\* the loop with the threshold read as "pct >= 15"
RECURSIVE TechnologiesLoopAtLeast(_, _, _, _, _, _)
TechnologiesLoopAtLeast(repos, sorted_langs, i, technologies, primary, secondary) ==
    IF i > Len(sorted_langs)
    THEN Ok([technologies |-> technologies,
             primary_stack |-> SubSeqTo(primary, 3),
             secondary_stack |-> SubSeqTo(secondary, 5),
             technology_summary |-> technology_summary(primary)])
    ELSE LET lang == sorted_langs[i].k
             pct == sorted_langs[i].pct
             relevant_repos == _find_repos_with_language(repos, lang)
         IN  IF IsRaised(relevant_repos) THEN relevant_repos
             ELSE LET recent == _has_recent_usage(repos, relevant_repos.value)
                  IN  IF IsRaised(recent) THEN recent
                      ELSE TechnologiesLoopAtLeast(repos, sorted_langs, i + 1,
                               Append(technologies,
                                   [name |-> lang,
                                    category |-> "language",
                                    usage_percentage |-> RoundHalfEven(pct.n * 10, pct.d),
                                    repository_count |-> Len(relevant_repos.value),
                                    recent_usage |-> recent.value,
                                    example_repositories |-> SubSeqTo(relevant_repos.value, 4)]),
                               IF ~ PctLT(pct, 15) THEN Append(primary, lang) ELSE primary,
                               IF ~ PctLT(pct, 15) THEN secondary ELSE Append(secondary, lang))

\* the loop over sorted_langs, from entry i on
RECURSIVE TechnologiesLoop(_, _, _, _, _, _)
TechnologiesLoop(repos, sorted_langs, i, technologies, primary, secondary) ==
    IF i > Len(sorted_langs)
    THEN Ok([technologies |-> technologies,
             primary_stack |-> SubSeqTo(primary, 3),
             secondary_stack |-> SubSeqTo(secondary, 5),
             technology_summary |-> technology_summary(primary)])
    ELSE LET lang == sorted_langs[i].k
             pct == sorted_langs[i].pct
             relevant_repos == _find_repos_with_language(repos, lang)
         IN  IF IsRaised(relevant_repos) THEN relevant_repos
             ELSE LET recent == _has_recent_usage(repos, relevant_repos.value)
                  IN  IF IsRaised(recent) THEN recent
                      ELSE TechnologiesLoop(repos, sorted_langs, i + 1,
                               Append(technologies,
                                   [name |-> lang,
                                    category |-> "language",
                                    usage_percentage |-> RoundHalfEven(pct.n * 10, pct.d),
                                    repository_count |-> Len(relevant_repos.value),
                                    recent_usage |-> recent.value,
                                    example_repositories |-> SubSeqTo(relevant_repos.value, 4)]),
                               IF PctGT(pct, 15) THEN Append(primary, lang) ELSE primary,
                               IF PctGT(pct, 15) THEN secondary ELSE Append(secondary, lang))

\* language_distribution is <<[k |-> language, v |-> percentage], ...>>; the
\* percentages share their denominator, so they sort by numerator
analyze_technologies(repos, language_distribution) ==
    LET sorted_langs ==
            SortDesc([i \in DOMAIN language_distribution |->
                        [k |-> language_distribution[i].k,
                         v |-> language_distribution[i].v.n,
                         pct |-> language_distribution[i].v]])
    IN  TechnologiesLoop(repos, sorted_langs, 1, <<>>, <<>>, <<>>)

\* get_all_keywords_flat(): the keywords of TECH_KW_CATEGORIES that occur in a
\* sample text, in table order, each with its category
all_tech_keywords == <<
    [keyword |-> "django", category |-> "Backend Framework"],
    [keyword |-> "react", category |-> "Frontend Framework"],
    [keyword |-> "react native", category |-> "Mobile Framework"],
    [keyword |-> "expo", category |-> "Mobile Framework"] >>

\* {kw for kw in all_tech_keywords if _keyword_matches(kw, text)}
DetectedTechs(text) ==
    { all_tech_keywords[i].keyword :
        i \in { j \in DOMAIN all_tech_keywords :
                  _keyword_matches(all_tech_keywords[j].keyword, text) } }

\* list(a_set): the elements in an order that the hash seed of the run fixes
Orderings(S) ==
    { o \in [1..Cardinality(S) -> S] : \A i, j \in DOMAIN o : o[i] = o[j] => i = j }

\* ---------------------------------------------------------------------------
\* AnalysisService
\* ---------------------------------------------------------------------------
\* the mutant that tests the rules for "AI Model" before those for "Mobile App"
InferTypeModelBeforeMobile(text) ==
    IF ContainsAny(text, {"api", "backend", "microservice"}) THEN "API Service"
    ELSE IF ContainsAny(text, {"library", "sdk", "package"}) THEN "Library"
    ELSE IF ContainsAny(text, {"cli", "tool"}) THEN "CLI Tool"
    ELSE IF ContainsAny(text, {"model", "training", "dataset"}) THEN "AI Model"
    ELSE IF ContainsAny(text, {"mobile", "app"}) THEN "Mobile App"
    ELSE IF ContainsAny(text, {"notebook", "analysis"}) THEN "Data Analysis"
    ELSE "Web App"

_infer_project_type(text) ==
    IF ContainsAny(text, {"api", "backend", "microservice"}) THEN "API Service"
    ELSE IF ContainsAny(text, {"library", "sdk", "package"}) THEN "Library"
    ELSE IF ContainsAny(text, {"cli", "tool"}) THEN "CLI Tool"
    ELSE IF ContainsAny(text, {"mobile", "app"}) THEN "Mobile App"
    ELSE IF ContainsAny(text, {"model", "training", "dataset"}) THEN "AI Model"
    ELSE IF ContainsAny(text, {"notebook", "analysis"}) THEN "Data Analysis"
    ELSE "Web App"

\* text.split('.')[0]
FirstSentence(text) ==
    LET dots == { i \in DOMAIN text : text[i] = "." }
    IN  IF dots = {} THEN text
        ELSE SubSeq(text, 1, (CHOOSE i \in dots : \A j \in dots : i <= j) - 1)

\* text.split(): the maximal runs of non-whitespace characters
RECURSIVE SplitWords(_)
SplitWords(text) ==
    IF text = <<>> THEN <<>>
    ELSE IF Head(text) \in Whitespace THEN SplitWords(Tail(text))
    ELSE LET n == RunLength(text, 1, { c \in { text[i] : i \in DOMAIN text } :
                                          c \notin Whitespace })
         IN  <<SubSeq(text, 1, n)>> \o SplitWords(SubSeq(text, n + 1, Len(text)))

RECURSIVE JoinWords(_)
JoinWords(words) ==
    IF words = <<>> THEN <<>>
    ELSE IF Len(words) = 1 THEN words[1]
    ELSE words[1] \o <<" ">> \o JoinWords(Tail(words))

\* the description of a project as the pieces of its text
_generate_crisp_description(repo, tech_used, domain) ==
    LET description == Get(repo, "description", Str(""))
    IN  IF ~ Has(description, "str") THEN Raised("AttributeError")    \* None.strip()
        ELSE
        LET repo_desc == StripText(Chars[description.str])
            first_sentence == StripText(FirstSentence(repo_desc))
            words == SplitWords(first_sentence)
            top_techs == SubSeqTo(tech_used, 2)
        IN  IF repo_desc # <<>>
            THEN IF Len(words) <= 15 THEN Ok(first_sentence)
                 ELSE Ok(JoinWords(SubSeqTo(words, 15)) \o <<"...">>)
            ELSE IF top_techs # <<>>
            THEN Ok(<<domain, " project using ">>
                    \o (IF Len(top_techs) = 1 THEN top_techs
                        ELSE <<top_techs[1], " and ", top_techs[2]>>))
            ELSE Ok(<<domain, " project">>)

\* one pass of the loop of _analyze_projects; detected is list(detected_techs).
\* The keywords entry (keyword_extractor, markdown_analyzer and
\* statistical_keyword_extractor) is not part of the model.
ProjectOf(repo, detected) ==
    LET text == _prepare_text(repo)
        classified == classify_repository(repo)
        languages == Get(repo, "languages", EmptyDict)
        topics == Get(repo, "topics", List(<<>>))
    IN  IF ~ IsDict(repo) THEN Raised("AttributeError")
        ELSE IF IsRaised(text) THEN text
        ELSE IF languages = None THEN Raised("AttributeError")
        ELSE IF ~ Has(topics, "list") THEN Raised("TypeError")         \* None[:3]
        ELSE
        LET repo_domain == classified.value.domain
            repo_langs == SortDesc(Get(languages, "percentages", <<>>))
            tech_used == Keys(SubSeqTo(repo_langs, 2)) \o SubSeqTo(detected, 3)
            features == IF topics.list # <<>> THEN SubSeqTo(topics.list, 3)
                        ELSE <<<<repo_domain, " project">>>>
            crisp == _generate_crisp_description(repo, tech_used, repo_domain)
            crisp_desc == IF Returned(crisp) THEN crisp.value
                          ELSE IF IsTruthy(PyGet(repo, "description")) THEN repo.description
                          ELSE <<repo_domain, " project">>
        IN  IF ~ Has(repo, "name") THEN Raised("KeyError")
            ELSE Ok([repository_name |-> repo.name,
                     business_domain |-> repo_domain,
                     project_type |-> _infer_project_type(text.value),
                     complexity_indicators |->
                         [repository_size_kb |-> PyGet(repo, "size_kb"),
                          stars |-> Get(repo, "stargazers_count", 0),
                          has_documentation |-> IsTruthy(PyGet(repo, "readme"))],
                     key_features |-> features,
                     technologies_used |-> tech_used,
                     production_signals |-> <<>>,
                     scope_description |-> crisp_desc])

\* the mutant that returns the project of every repository
RECURSIVE ProjectsLoopUncapped(_, _, _, _)
ProjectsLoopUncapped(repos, orders, i, projects) ==
    IF i > Len(repos) THEN Ok(projects)
    ELSE LET project == ProjectOf(repos[i], orders[i])
         IN  IF IsRaised(project) THEN project
             ELSE ProjectsLoopUncapped(repos, orders, i + 1, Append(projects, project.value))

RECURSIVE ProjectsLoop(_, _, _, _)
ProjectsLoop(repos, orders, i, projects) ==
    IF i > Len(repos) THEN Ok(SubSeqTo(projects, 10))
    ELSE LET project == ProjectOf(repos[i], orders[i])
         IN  IF IsRaised(project) THEN project
             ELSE ProjectsLoop(repos, orders, i + 1, Append(projects, project.value))

\* orders[i] is the order in which the set of technologies detected in
\* repository i is listed
_analyze_projects(repos, domain_analysis, tech_analysis, orders) ==
    ProjectsLoop(repos, orders, 1, <<>>)

\* the technologies _analyze_projects detects in a repository
DetectedOf(repo) ==
    IF IsDict(repo) /\ Returned(_prepare_text(repo))
    THEN DetectedTechs(_prepare_text(repo).value) ELSE {}

\* the orders in which the detected sets of the repositories can be listed
RECURSIVE ListingOrders(_, _)
ListingOrders(repos, i) ==
    IF i > Len(repos) THEN {<<>>}
    ELSE { <<o>> \o rest : o \in Orderings(DetectedOf(repos[i])),
                           rest \in ListingOrders(repos, i + 1) }

\* the loop of detect_frameworks over the repositories and the keyword table:
\* fw_counts in first-match order, each keyword with the first repository it
\* was found in
RECURSIVE DetectKeywords(_, _, _)
DetectKeywords(repo, j, found) ==
    IF j > Len(all_tech_keywords) THEN Ok(found)
    ELSE LET keyword == all_tech_keywords[j].keyword
             at == { n \in DOMAIN found : found[n].k = keyword }
         IN  IF ~ _keyword_matches(keyword, _prepare_text(repo).value)
             THEN DetectKeywords(repo, j + 1, found)
             ELSE IF at # {}
             THEN DetectKeywords(repo, j + 1,
                      [n \in DOMAIN found |->
                          IF n \in at THEN [found[n] EXCEPT !.v = @ + 1] ELSE found[n]])
             ELSE IF ~ Has(repo, "name") THEN Raised("KeyError")
             ELSE DetectKeywords(repo, j + 1,
                      Append(found, [k |-> keyword, v |-> 1, repo |-> repo.name,
                                     cat |-> all_tech_keywords[j].category]))

RECURSIVE DetectLoop(_, _, _, _)
DetectLoop(repos, i, j, found) ==
    IF i > Len(repos) THEN Ok(found)
    ELSE IF ~ IsDict(repos[i]) THEN Raised("AttributeError")
    ELSE IF IsRaised(_prepare_text(repos[i])) THEN _prepare_text(repos[i])
    ELSE IF IsRaised(DetectKeywords(repos[i], j, found)) THEN DetectKeywords(repos[i], j, found)
    ELSE DetectLoop(repos, i + 1, 1, DetectKeywords(repos[i], j, found).value)

detect_frameworks(repos, parsed_dependencies) ==
    LET found == DetectLoop(repos, 1, 1, <<>>)
    IN  IF IsRaised(found) THEN found
        ELSE LET top == most_common(found.value, 25)
                 frameworks == [n \in DOMAIN top |->
                                   [name |-> TitleText(Chars[top[n].k]),
                                    category |-> top[n].cat,
                                    evidence |-> KeywordEvidence(top[n].v, top[n].repo)]]
             IN  IF parsed_dependencies # <<>>
                 THEN Ok(enrich_with_dependencies(frameworks, parsed_dependencies))
                 ELSE Ok(frameworks)

\* readme_analyzer.analyze_readme on the README contents of the sample
\* repositories: the skills it extracts from each
analyze_readme ==
    "pip install flask" :>
        <<[name |-> "Flask", category |-> "library", source |-> "package_manager"]>> @@
    "Uses docker" :>
        <<[name |-> "Docker", category |-> "tool", source |-> "keyword"]>> @@
    "# Notes" :> <<>>

RECURSIVE ReadmeSkillsLoop(_, _, _)
ReadmeSkillsLoop(repos, i, all_skills) ==
    IF i > Len(repos) THEN all_skills
    ELSE LET readme == Get(repos[i], "readme", EmptyDict)
         IN  IF IsTruthy(readme) /\ Get(readme, "has_readme", FALSE)
                /\ IsTruthy(Get(readme, "content", Str("")))
             THEN ReadmeSkillsLoop(repos, i + 1,
                                   all_skills \o analyze_readme[readme.content.str])
             ELSE ReadmeSkillsLoop(repos, i + 1, all_skills)

_extract_readme_skills(repos) == ReadmeSkillsLoop(repos, 1, <<>>)

\* framework_map, keyed by the lower-cased name: a later framework of the same
\* key replaces the earlier one in its place
RECURSIVE FrameworkMap(_, _, _)
FrameworkMap(frameworks, i, map) ==
    IF i > Len(frameworks) THEN map
    ELSE LET key == LowerText(frameworks[i].name)
             at == { n \in DOMAIN map : map[n].key = key }
         IN  FrameworkMap(frameworks, i + 1,
                 IF at = {} THEN Append(map, [key |-> key, f |-> frameworks[i]])
                 ELSE [n \in DOMAIN map |->
                          IF n \in at THEN [key |-> key, f |-> frameworks[i]] ELSE map[n]])

\* f"Detected in README ({source})" and f"Mentioned in README ({source})"
ReadmeEvidence(verb, source) == <<verb, " in README (", source, ")">>

RECURSIVE MergeSkillsLoop(_, _, _)
MergeSkillsLoop(readme_skills, i, map) ==
    IF i > Len(readme_skills) THEN map
    ELSE LET skill == readme_skills[i]
             key == LowerText(Chars[skill.name])
         IN  IF skill.category \in {"framework", "library"}
                /\ ~ \E n \in DOMAIN map : map[n].key = key
             THEN MergeSkillsLoop(readme_skills, i + 1,
                      Append(map, [key |-> key,
                                   f |-> [name |-> Chars[skill.name],
                                          category |-> TitleText(Chars[skill.category]),
                                          evidence |-> ReadmeEvidence("Detected", skill.source)]]))
             ELSE MergeSkillsLoop(readme_skills, i + 1, map)

_merge_readme_skills_with_frameworks(frameworks, readme_skills) ==
    LET map == MergeSkillsLoop(readme_skills, 1, FrameworkMap(frameworks, 1, <<>>))
    IN  [n \in DOMAIN map |-> map[n].f]

_compile_skills(tech_analysis, domain_analysis, metrics, repos, parsed_dependencies) ==
    LET frameworks == detect_frameworks(repos, parsed_dependencies)
    IN  IF ~ Has(tech_analysis, "technologies") THEN Raised("KeyError")
        ELSE IF IsRaised(frameworks) THEN frameworks
        ELSE
        LET readme_skills == _extract_readme_skills(repos)
            frameworks_enhanced ==
                _merge_readme_skills_with_frameworks(frameworks.value, readme_skills)
            soft_skills ==
                IF PctGT(metrics.documentation_percentage, 40)
                THEN <<[name |-> "Documentation", evidence |-> "Consistent README usage"]>>
                ELSE <<>>
            domain_expertise ==
                [n \in DOMAIN domain_analysis.specializations |->
                    [name |-> domain_analysis.specializations[n],
                     evidence |-> "Project signatures"]]
            IsTool(skill) == skill.category \in {"tool", "database"}
            tools == SelectSeq(readme_skills, IsTool)
            tools_from_readme ==
                [n \in DOMAIN tools |->
                    [name |-> tools[n].name,
                     evidence |-> ReadmeEvidence("Mentioned", tools[n].source)]]
        IN  Ok([frameworks_and_libraries |-> frameworks_enhanced,
                tools_and_platforms |-> SubSeqTo(tools_from_readme, 10),
                soft_skills_indicators |-> soft_skills,
                domain_expertise |-> domain_expertise])

\* the executive summary as the values its f-string interpolates
_generate_summary(user, metrics, tech_analysis, domain_analysis, skills) ==
    IF user = None \/ ~ IsDict(user) THEN Raised("AttributeError")
    ELSE LET frameworks == skills.frameworks_and_libraries
             top_fws == SubSeqTo([n \in DOMAIN frameworks |-> frameworks[n].name], 3)
             secondary_domains == SubSeqTo(domain_analysis.secondary_domains, 2)
         IN  Ok([name |-> PyGet(user, "login"),
                 primary_domain |-> domain_analysis.primary_domain,
                 primary_langs |-> tech_analysis.primary_stack,
                 top_fws |-> top_fws,
                 total_repos |-> metrics.total_repos,
                 secondary_str |-> IF secondary_domains # <<>> THEN secondary_domains
                                   ELSE <<"various technologies">>,
                 documentation_coverage |-> PctInt(metrics.documentation_percentage)])

_assemble_report(user, tech_analysis, project_analysis, skills, domain_analysis, summary, scores, metrics, recommendation) ==
    LET frameworks == skills.frameworks_and_libraries
    IN  [status |-> "success",
         report |->
           [candidate |->
              [name |-> IF IsTruthy(PyGet(user, "name")) THEN user.name
                        ELSE PyGet(user, "login"),
               username |-> PyGet(user, "login"),
               profile_url |-> [prefix |-> "https://github.com/", login |-> PyGet(user, "login")],
               avatar_url |-> PyGet(user, "avatar_url"),
               bio |-> PyGet(user, "bio"),
               location |-> PyGet(user, "location"),
               company |-> PyGet(user, "company")],
            technology_analysis |-> tech_analysis,
            project_scope_analysis |-> project_analysis,
            comprehensive_skills |-> skills,
            domain_classification |-> domain_analysis,
            executive_summary |-> summary,
            technical_assessment |->
              [overall_score |-> scores.overall,
               primary_languages |-> tech_analysis.primary_stack,
               language_proficiency |-> scores.proficiency,
               frameworks_detected |-> [n \in DOMAIN frameworks |-> frameworks[n].name],
               specializations |-> IF domain_analysis.secondary_domains # <<>>
                                   THEN domain_analysis.secondary_domains
                                   ELSE <<"Generalist">>,
               technical_depth |-> scores.depth,
               learning_trajectory |-> scores.trajectory],
            code_quality |->
              [overall_score |-> scores.quality,
               documentation_score |-> scores.docs_score,
               documentation_evidence |->
                   [with_readme |-> metrics.repos_with_readme, of |-> metrics.total_repos],
               project_structure |-> IF metrics.repos_with_readme > 0 THEN "Professional"
                                     ELSE "Developing",
               best_practices |-> IF PctGT(metrics.documentation_percentage, 50)
                                  THEN <<"Good documentation">> ELSE <<>>,
               areas_to_verify |-> <<"Test coverage", "Code consistency">>],
            hiring_recommendation |-> recommendation,
            metadata |->
              [analysis_confidence |-> "High",
               data_completeness |-> PctInt(metrics.documentation_percentage),
               additional_notes |->
                   "Modular deterministic analysis with dependency extraction from manifest files."]],
         generated_at |-> "utcnow",
         provider |-> "deterministic",
         model |-> "rule-engine-v3-modular",
         data_source |-> "stored_json"]

_generate_fallback ==
    [status |-> "error", message |-> "Analysis failed", generated_at |-> "utcnow"]

\* a handler that lets the exception through
ExceptPropagates(e) == Raised(e)

\* the except clause of generate_report
Except(e) == Ok(_generate_fallback)

\* lines 86-92 of _generate_deterministic_report: the dependencies parsed
\* from the manifest files of every repository, from repository i on;
\* all_dependencies is the list so far, or what parse_all raised
RECURSIVE DependenciesLoop(_, _, _)
DependenciesLoop(repos, i, all_dependencies) ==
    IF IsRaised(all_dependencies) \/ i > Len(repos) THEN all_dependencies
    ELSE IF ~ IsDict(repos[i]) THEN Raised("AttributeError")
    ELSE DependenciesLoop(repos, i + 1,
             IF Get(repos[i], "dependency_files", <<>>) = <<>> THEN all_dependencies
             ELSE Extend(all_dependencies.value, parse_all(repos[i].dependency_files)))

\* data.get(...) of a value that is no dict, and iterating over repositories
\* that are no list, raise
ParseDependencyFiles(data) ==
    IF ~ IsDict(data) THEN Raised("AttributeError")
    ELSE IF ~ Has(Get(data, "repositories", List(<<>>)), "list") THEN Raised("TypeError")
    ELSE DependenciesLoop(Get(data, "repositories", List(<<>>)).list, 1, Ok(<<>>))

\* ---------------------------------------------------------------------------
\* Specification Spec: generate_report on stored profile data, one step of
\* _generate_deterministic_report at a time. stage names the step to run
\* next, locals holds the local variables assigned so far.
\* ---------------------------------------------------------------------------
MaxRepositories == 2

UserSamples ==
    { None,
      EmptyDict,
      [login |-> Str("octocat"), name |-> None, created_at |-> [age_tenths |-> 35]],
      [login |-> Str("ghost"), name |-> Str("Ghost"), created_at |-> [invalid |-> TRUE]] }

RepoSamples ==
    { [name |-> "clinic-api",
       description |-> Str("Machine learning api for healthcare"),
       topics |-> List(<<"ai">>),
       languages |-> [raw_bytes |-> <<[k |-> "Python", v |-> 700], [k |-> "JavaScript", v |-> 300]>>,
                      percentages |-> <<[k |-> "Python", v |-> 70], [k |-> "JavaScript", v |-> 30]>>],
       pushed_at |-> [days_ago |-> 2],
       stargazers_count |-> 12, forks_count |-> 1, size_kb |-> 120,
       readme |-> [has_readme |-> TRUE, content |-> Str("pip install flask")],
       dependency_files |->
           <<[filename |-> "package.json",
              content |-> Json(JObj(<<Member("dependencies",
                              JObj(<<Member("react", JStr(Chars["^18.2.0"]))>>))>>))]>>],
      [name |-> "shop-app",
       description |-> Str("React native mobile app"),
       topics |-> List(<<"react", "expo">>),
       languages |-> [raw_bytes |-> <<[k |-> "JavaScript", v |-> 500]>>,
                      percentages |-> <<[k |-> "JavaScript", v |-> 100]>>],
       pushed_at |-> None, updated_at |-> [days_ago |-> 200],
       stargazers_count |-> 0],
      [name |-> "notes", description |-> None,
       pushed_at |-> [days_ago |-> 45],
       readme |-> [has_readme |-> TRUE, content |-> Str("Uses docker")]],
      [name |-> "weekly", pushed_at |-> [days_ago |-> 20]],
      \* repositories on which a step of the pipeline raises
      [description |-> Str("Patient records api"), topics |-> List(<<"django">>)],
      [name |-> "legacy", topics |-> None],
      [name |-> "no-languages", languages |-> None],
      [name |-> "bad-date", pushed_at |-> [invalid |-> TRUE]],
      [name |-> "bad-manifest",
       dependency_files |-> <<[filename |-> "package.json", content |-> Json(JNull)]>>],
      [languages |-> [raw_bytes |-> <<[k |-> "Go", v |-> 10]>>,
                      percentages |-> <<[k |-> "Go", v |-> 100]>>]],
      [name |-> "odd-topics", topics |-> Num(5)],
      NonDict }

DataSamples ==
    { NonDict, EmptyDict, [user |-> EmptyDict, repositories |-> None] }
    \cup { [user |-> u, repositories |-> List(rs)] :
             u \in UserSamples, rs \in SeqsUpTo(RepoSamples, MaxRepositories) }

Init ==
    /\ op = "generate_report"
    /\ args \in { [data |-> d] : d \in DataSamples }
    /\ stage = "parse_dependencies"
    /\ locals = NoLocals
    /\ ret = Pending

\* user = data.get("user", {}) and repos = data.get("repositories", []),
\* which no step assigns again
user == Get(args.data, "user", EmptyDict)
repos == Get(args.data, "repositories", List(<<>>)).list

\* the step assigns its result to a local and goes on to the next step, or
\* raises into the except clause of generate_report
Step(outcome, local, next) ==
    /\ IF IsRaised(outcome)
       THEN /\ stage' = "except"
            /\ locals' = ("exception" :> outcome.raised) @@ locals
       ELSE /\ stage' = next
            /\ locals' = (local :> outcome.value) @@ locals
    /\ UNCHANGED <<op, args, ret>>

ParseDependencies ==
    /\ op = "generate_report" /\ stage = "parse_dependencies"
    /\ Step(ParseDependencyFiles(args.data), "all_dependencies", "calculate_metrics")

CalculateMetrics ==
    /\ op = "generate_report" /\ stage = "calculate_metrics"
    /\ Step(calculate_metrics(user, repos), "metrics", "analyze_technologies")

AnalyzeTechnologies ==
    /\ op = "generate_report" /\ stage = "analyze_technologies"
    /\ Step(analyze_technologies(repos, locals.metrics.language_distribution),
            "tech_analysis", "classify_repositories")

ClassifyRepositories ==
    /\ op = "generate_report" /\ stage = "classify_repositories"
    /\ Step(classify_repositories(repos), "domain_analysis", "analyze_projects")

AnalyzeProjects ==
    /\ op = "generate_report" /\ stage = "analyze_projects"
    /\ \E orders \in ListingOrders(repos, 1) :
          Step(_analyze_projects(repos, locals.domain_analysis,
                                 locals.tech_analysis, orders),
               "project_analysis", "compile_skills")

CompileSkills ==
    /\ op = "generate_report" /\ stage = "compile_skills"
    /\ Step(_compile_skills(locals.tech_analysis, locals.domain_analysis, locals.metrics,
                            repos, locals.all_dependencies),
            "skills", "calculate_scores")

ScoreProfile ==
    /\ op = "generate_report" /\ stage = "calculate_scores"
    /\ Step(calculate_scores(locals.metrics, locals.tech_analysis), "scores", "generate_summary")

GenerateSummary ==
    /\ op = "generate_report" /\ stage = "generate_summary"
    /\ Step(_generate_summary(user, locals.metrics, locals.tech_analysis,
                              locals.domain_analysis, locals.skills),
            "summary", "recommend_role")

\* tech_analysis_with_frameworks: tech_analysis and the detected frameworks
RecommendForReport ==
    /\ op = "generate_report" /\ stage = "recommend_role"
    /\ Step(recommend_role(locals.domain_analysis,
                           ("detected_frameworks" :> locals.skills.frameworks_and_libraries)
                               @@ locals.tech_analysis,
                           locals.scores, locals.metrics),
            "recommendation", "assemble_report")

AssembleReport ==
    /\ op = "generate_report" /\ stage = "assemble_report"
    /\ ret' = Ok(_assemble_report(user, locals.tech_analysis, locals.project_analysis,
                                  locals.skills, locals.domain_analysis, locals.summary,
                                  locals.scores, locals.metrics, locals.recommendation))
    /\ stage' = "done"
    /\ UNCHANGED <<op, args, locals>>

HandleException ==
    /\ op = "generate_report" /\ stage = "except"
    /\ ret' = Except(locals.exception)
    /\ stage' = "done"
    /\ UNCHANGED <<op, args, locals>>

Next ==
    \/ ParseDependencies
    \/ CalculateMetrics
    \/ AnalyzeTechnologies
    \/ ClassifyRepositories
    \/ AnalyzeProjects
    \/ CompileSkills
    \/ ScoreProfile
    \/ GenerateSummary
    \/ RecommendForReport
    \/ AssembleReport
    \/ HandleException

Spec == Init /\ [][Next]_vars

\* C1: generate_report never propagates an exception: on every data value,
\* whichever step of the pipeline fails, it returns a success payload or the
\* fixed fallback payload whose status is "error".
C1_NeverPropagates ==
    (op = "generate_report" /\ stage = "done") =>
        /\ Returned(ret)
        /\ \/ ret.value.status = "success"
           \/ ret.value = [status |-> "error", message |-> "Analysis failed",
                           generated_at |-> "utcnow"]

\* a step in the middle of the pipeline raised and the fallback was returned
C1_Witness ==
    /\ op = "generate_report" /\ stage = "done"
    /\ Has(locals, "exception") /\ Has(locals, "domain_analysis")
    /\ ret = Ok(_generate_fallback)

\* the data holds a user (a dict) and an empty or absent repository list
C2_EmptyRepositoryList ==
    /\ op = "generate_report"
    /\ IsDict(args.data)
    /\ Get(args.data, "user", EmptyDict) # None
    /\ Get(args.data, "repositories", List(<<>>)) = List(<<>>)

C2_ReportKeys ==
    { "candidate", "technology_analysis", "project_scope_analysis", "comprehensive_skills",
      "domain_classification", "executive_summary", "technical_assessment", "code_quality",
      "hiring_recommendation", "metadata" }

\* C2: for a user with an empty repository list calculate_metrics returns
\* total_repos 0, documentation_percentage 0 and days_since_last_commit 999
\* and raises nothing, and generate_report returns a success report with
\* every report key and neutral values: primary domain "Software
\* Development", empty stacks, overall score 6.0.
C2_EmptyRepositoriesNeutralReport ==
    C2_EmptyRepositoryList =>
        /\ stage # "except"
        /\ Has(locals, "metrics") =>
              /\ locals.metrics.total_repos = 0
              /\ locals.metrics.documentation_percentage = Pct(0, 1)
              /\ locals.metrics.days_since_last_commit = 999
        /\ stage = "done" =>
              /\ Returned(ret)
              /\ ret.value.status = "success"
              /\ DOMAIN ret.value.report = C2_ReportKeys
              /\ ret.value.report.domain_classification.primary_domain = "Software Development"
              /\ ret.value.report.technology_analysis.primary_stack = <<>>
              /\ ret.value.report.technology_analysis.secondary_stack = <<>>
              /\ ret.value.report.technical_assessment.overall_score = 60

\* the report of a user with a profile and no repository
C2_Witness ==
    /\ C2_EmptyRepositoryList
    /\ Has(args.data, "user") /\ Has(args.data.user, "login")
    /\ stage = "done"
    /\ ret.value.status = "success"
    /\ locals.metrics = _get_empty_metrics

\* C3: every successful generate_report result has the ten report keys, and
\* its comprehensive_skills has the five keys programming_languages,
\* frameworks_and_libraries, tools_and_platforms, soft_skills_indicators and
\* domain_expertise.
C3_ReportAndSkillKeys ==
    (op = "generate_report" /\ stage = "done" /\ Returned(ret)
        /\ ret.value.status = "success") =>
        /\ DOMAIN ret.value.report =
              { "candidate", "technology_analysis", "project_scope_analysis",
                "comprehensive_skills", "domain_classification", "executive_summary",
                "technical_assessment", "code_quality", "hiring_recommendation", "metadata" }
        /\ DOMAIN ret.value.report.comprehensive_skills =
              { "programming_languages", "frameworks_and_libraries", "tools_and_platforms",
                "soft_skills_indicators", "domain_expertise" }

\* ---------------------------------------------------------------------------
\* KeywordExtractor
\* ---------------------------------------------------------------------------
\* _build_technical_patterns(), _build_domain_patterns() and
\* _build_feature_patterns() in table order: the patterns that occur in a
\* sample text (no other pattern of the tables occurs in one)
technical_patterns == <<
    [pattern |-> "react", name |-> "React"],
    [pattern |-> "vue", name |-> "Vue.js"],
    [pattern |-> "react native", name |-> "React Native"],
    [pattern |-> "ios", name |-> "iOS"],
    [pattern |-> "aws", name |-> "AWS"],
    [pattern |-> "rest api", name |-> "REST API"] >>

domain_patterns == <<
    [pattern |-> "chat", name |-> "Communication"],
    [pattern |-> "crm", name |-> "CRM"],
    [pattern |-> "erp", name |-> "ERP"],
    [pattern |-> "gaming", name |-> "Gaming"],
    [pattern |-> "game", name |-> "Gaming"] >>

feature_patterns == <<
    [pattern |-> "authentication", name |-> "Authentication"],
    [pattern |-> "auth", name |-> "Authentication"],
    [pattern |-> "jwt", name |-> "JWT"],
    [pattern |-> "api", name |-> "API"],
    [pattern |-> "rest", name |-> "REST API"] >>

\* ExtractedKeyword; confidence is held in thousandths
ExtractedKeyword(keyword, category, confidence, sources, frequency) ==
    [keyword |-> keyword, category |-> category, confidence |-> confidence,
     sources |-> sources, frequency |-> frequency]

\* str.replace(old, new) for a non-empty old
RECURSIVE ReplaceText(_, _, _)
ReplaceText(t, old, new) ==
    IF Len(t) < Len(old) THEN t
    ELSE IF StartsWith(t, old) THEN new \o ReplaceText(SubSeq(t, Len(old) + 1, Len(t)), old, new)
    ELSE <<Head(t)>> \o ReplaceText(Tail(t), old, new)

\* sources[key] = text on the insertion-ordered dict <<[k |-> key, v |-> text], ...>>
DictSet(entries, key, value) ==
    IF \E i \in DOMAIN entries : entries[i].k = key
    THEN [i \in DOMAIN entries |-> IF entries[i].k = key THEN [k |-> key, v |-> value] ELSE entries[i]]
    ELSE Append(entries, [k |-> key, v |-> value])

\* the loop over markdown_files, from entry i on
RECURSIVE MarkdownSourcesLoop(_, _, _)
MarkdownSourcesLoop(markdown_files, i, sources) ==
    IF i > Len(markdown_files) THEN Ok(sources)
    ELSE IF ~ IsDict(markdown_files[i]) THEN Raised("AttributeError")
    ELSE LET filename == Get(markdown_files[i], "filename", Str(""))
             content == Get(markdown_files[i], "content", Str(""))
         IN  IF ~ IsTruthy(content) THEN MarkdownSourcesLoop(markdown_files, i + 1, sources)
             ELSE IF ~ Has(filename, "str") \/ ~ Has(content, "str") THEN Raised("AttributeError")
             ELSE MarkdownSourcesLoop(markdown_files, i + 1,
                      DictSet(sources,
                              Chars["md_"] \o ReplaceText(LowerText(Chars[filename.str]), Chars[".md"], <<>>),
                              LowerText(Chars[content.str])))

\* the text sources of a repository in insertion order, their names as text
_gather_text_sources(repo) ==
    LET description == PyGet(repo, "description")
        topics == Get(repo, "topics", List(<<>>))
        readme == Get(repo, "readme", EmptyDict)
        name == PyGet(repo, "name")
        markdown_files == Get(repo, "markdown_files", List(<<>>))
    IN  IF ~ IsDict(repo) THEN Raised("AttributeError")
        ELSE IF IsTruthy(description) /\ ~ Has(description, "str") THEN Raised("AttributeError")
        ELSE IF IsTruthy(topics) /\ ~ Has(topics, "list") THEN Raised("TypeError")
        ELSE IF IsTruthy(readme) /\ ~ IsDict(readme) THEN Raised("AttributeError")
        ELSE IF IsTruthy(readme) /\ IsTruthy(PyGet(readme, "content")) /\ ~ Has(readme.content, "str")
             THEN Raised("AttributeError")
        ELSE IF IsTruthy(name) /\ ~ Has(name, "str") THEN Raised("AttributeError")
        ELSE IF ~ Has(markdown_files, "list") THEN Raised("TypeError")
        ELSE MarkdownSourcesLoop(markdown_files.list, 1,
                 (IF IsTruthy(description)
                  THEN <<[k |-> Chars["description"], v |-> LowerText(Chars[description.str])]>>
                  ELSE <<>>)
                 \o (IF IsTruthy(topics)
                     THEN <<[k |-> Chars["topics"], v |-> LowerText(JoinText(topics.list, <<" ">>))]>>
                     ELSE <<>>)
                 \o (IF IsTruthy(readme) /\ IsTruthy(PyGet(readme, "content"))
                     THEN <<[k |-> Chars["readme"], v |-> LowerText(Chars[readme.content.str])]>>
                     ELSE <<>>)
                 \o (IF IsTruthy(name)
                     THEN <<[k |-> Chars["repo_name"],
                             v |-> LowerText(ReplaceText(ReplaceText(Chars[name.str], <<"-">>, <<" ">>),
                                                         <<"_">>, <<" ">>))]>>
                     ELSE <<>>))

_word_boundary_match(pattern, text) ==
    IF Len(pattern) < 4 THEN BoundarySearch(pattern, text) ELSE Contains(text, pattern)

\* pattern in text or self._word_boundary_match(pattern, text)
PatternFound(pattern, text) == Contains(text, pattern) \/ _word_boundary_match(pattern, text)

\* sources_found of one pattern: the names of the sources it is found in, in order
RECURSIVE SourcesFound(_, _, _)
SourcesFound(pattern, text_sources, i) ==
    IF i > Len(text_sources) THEN <<>>
    ELSE (IF PatternFound(pattern, text_sources[i].v) THEN <<text_sources[i].k>> ELSE <<>>)
         \o SourcesFound(pattern, text_sources, i + 1)

\* keywords.sort(key=lambda k: (k.confidence, k.frequency), reverse=True): a
\* stable sort, larger keys first
RanksBefore(x, y) ==
    x.confidence > y.confidence \/ (x.confidence = y.confidence /\ x.frequency > y.frequency)

RECURSIVE RankInsert(_, _)
RankInsert(sorted, x) ==
    IF sorted = <<>> THEN <<x>>
    ELSE IF RanksBefore(x, Head(sorted)) THEN <<x>> \o sorted
    ELSE <<Head(sorted)>> \o RankInsert(Tail(sorted), x)

RECURSIVE RankSort(_, _, _)
RankSort(items, i, sorted) ==
    IF i > Len(items) THEN sorted ELSE RankSort(items, i + 1, RankInsert(sorted, items[i]))

\* the keywords of the languages with more than 5.0 percent; percentages are
\* <<[k |-> language, v |-> tenths of a percent], ...>>
LanguageKeywords(percentages) ==
    LET above == SelectSeq(percentages, LAMBDA e : e.v > 50)
    IN  [i \in DOMAIN above |->
            ExtractedKeyword(above[i].k, "technical", Min(above[i].v, 1000), <<Chars["languages"]>>, 1)]

\* the loop over a pattern table with the confidence rule of the category
RECURSIVE PatternKeywords(_, _, _, _)
PatternKeywords(patterns, category, text_sources, i) ==
    IF i > Len(patterns) THEN <<>>
    ELSE LET sources_found == SourcesFound(Chars[patterns[i].pattern], text_sources, 1)
             n == Len(sources_found)
             confidence ==
                 CASE category = "technical" -> Min(500 + n * 200, 1000)
                   [] category = "domain" ->
                        Min(600 + (IF \E j \in 1..n : sources_found[j] = Chars["description"] THEN 200 ELSE 0)
                                + (IF \E j \in 1..n : sources_found[j] = Chars["topics"] THEN 200 ELSE 0),
                            1000)
                   [] category = "feature" -> Min(500 + n * 150, 1000)
         IN  (IF n > 0
              THEN <<ExtractedKeyword(patterns[i].name, category, confidence, sources_found, n)>>
              ELSE <<>>)
             \o PatternKeywords(patterns, category, text_sources, i + 1)

_extract_technical_keywords(text_sources, repo) ==
    LET languages == Get(repo, "languages", EmptyDict)
    IN  IF languages = None \/ ~ IsDict(languages) THEN Raised("AttributeError")
        ELSE IF Get(languages, "percentages", <<>>) = None THEN Raised("AttributeError")
        ELSE Ok(RankSort(LanguageKeywords(Get(languages, "percentages", <<>>))
                         \o PatternKeywords(technical_patterns, "technical", text_sources, 1),
                         1, <<>>))

_extract_domain_keywords(text_sources) ==
    RankSort(PatternKeywords(domain_patterns, "domain", text_sources, 1), 1, <<>>)

_extract_feature_keywords(text_sources) ==
    RankSort(PatternKeywords(feature_patterns, "feature", text_sources, 1), 1, <<>>)

\* the dict unique, keyed by the lower-cased keyword, in insertion order
RECURSIVE UniqueLoop(_, _, _)
UniqueLoop(keywords, i, unique) ==
    IF i > Len(keywords) THEN unique
    ELSE LET key == LowerText(Chars[keywords[i].keyword])
             at == { j \in DOMAIN unique : unique[j].k = key }
         IN  UniqueLoop(keywords, i + 1,
                 IF at = {} \/ (\E j \in at : keywords[i].confidence > unique[j].v.confidence)
                 THEN DictSet(unique, key, keywords[i])
                 ELSE unique)

\* _rank_and_deduplicate without the dict: the ranking alone
RankOnly(keywords) == RankSort(keywords, 1, <<>>)

_rank_and_deduplicate(keywords) ==
    LET unique == UniqueLoop(keywords, 1, <<>>)
    IN  RankSort([j \in DOMAIN unique |-> unique[j].v], 1, <<>>)

KeywordNames(keywords, n) == [j \in 1..Min(n, Len(keywords)) |-> keywords[j].keyword]

extract_keywords(repo) ==
    LET text_sources == _gather_text_sources(repo)
    IN  IF IsRaised(text_sources) THEN text_sources
        ELSE LET technical == _extract_technical_keywords(text_sources.value, repo)
                 domain == _extract_domain_keywords(text_sources.value)
                 feature == _extract_feature_keywords(text_sources.value)
             IN  IF IsRaised(technical) THEN technical
                 ELSE Ok([technical_keywords |-> KeywordNames(technical.value, 10),
                          domain_keywords |-> KeywordNames(domain, 8),
                          feature_keywords |-> KeywordNames(feature, 8),
                          all_keywords |->
                              KeywordNames(_rank_and_deduplicate(technical.value \o domain \o feature), 15)])

\* ---------------------------------------------------------------------------
\* Specification SpecKeywords: the keyword extractor called on repositories
\* of the stored profile data
\* ---------------------------------------------------------------------------
Absent == [absent |-> TRUE]

\* a dict with the one key, or the empty dict for a key that is not stored
Field(key, value) == IF value = Absent THEN EmptyDict ELSE (key :> value)

KeywordDescriptions ==
    { Absent, None, Str("Kiosk for laws"), Str("iOS and AWS"),
      Str("REST API authentication"), Str("Rapid interpreter game") }

KeywordTopics == { Absent, List(<<"vue", "crm">>), List(<<"revue", "gaming">>) }

KeywordReadmes ==
    { Absent, None, [content |-> Str("JWT auth for the ERP api")],
      [content |-> Str("React Native chat, iOS")] }

KeywordNamesOfRepos == { Absent, Str("ios-kiosk"), Str("aws_api") }

KeywordLanguages ==
    { Absent,
      [percentages |-> <<[k |-> "Swift", v |-> 949], [k |-> "Shell", v |-> 51]>>],
      [percentages |-> <<[k |-> "Vue", v |-> 50], [k |-> "React", v |-> 700],
                         [k |-> "JavaScript", v |-> 250]>>] }

KeywordMarkdownFiles ==
    { Absent,
      List(<<[filename |-> Str("CONTRIBUTING.md"), content |-> Str("Use the API")],
             [filename |-> Str("contributing.MD"), content |-> Str("vue")],
             [filename |-> Str("EMPTY.md"), content |-> Str("")]>>) }

KeywordRepoSamples ==
    { Field("description", d) @@ Field("topics", t) @@ Field("readme", r) @@ Field("name", n)
        @@ Field("languages", l) @@ Field("markdown_files", m) :
        d \in KeywordDescriptions, t \in KeywordTopics, r \in KeywordReadmes,
        n \in KeywordNamesOfRepos, l \in KeywordLanguages, m \in KeywordMarkdownFiles }
    \cup { NonDict,
           [description |-> Num(5)],
           [topics |-> Num(5)],
           [name |-> Str("legacy"), markdown_files |-> None],
           [name |-> Str("no-languages"), languages |-> None] }

\* the repositories whose text sources can be gathered, each with them
GatheredSamples ==
    { [text_sources |-> _gather_text_sources(r).value, repo |-> r] :
        r \in { x \in KeywordRepoSamples : ~ IsRaised(_gather_text_sources(x)) } }

InitKeywords ==
    /\ \/ /\ op \in { "extract_keywords", "_gather_text_sources" }
          /\ args \in { [repo |-> r] : r \in KeywordRepoSamples }
       \/ /\ op \in { "_extract_technical_keywords", "_extract_domain_keywords",
                      "_extract_feature_keywords" }
          /\ args \in GatheredSamples
    /\ stage = "idle"
    /\ locals = NoLocals
    /\ ret = Pending

GatherTextSources ==
    /\ op = "_gather_text_sources"
    /\ ret = Pending
    /\ ret' = _gather_text_sources(args.repo)
    /\ UNCHANGED <<op, args, stage, locals>>

ExtractTechnicalKeywords ==
    /\ op = "_extract_technical_keywords"
    /\ ret = Pending
    /\ ret' = _extract_technical_keywords(args.text_sources, args.repo)
    /\ UNCHANGED <<op, args, stage, locals>>

ExtractDomainKeywords ==
    /\ op = "_extract_domain_keywords"
    /\ ret = Pending
    /\ ret' = Ok(_extract_domain_keywords(args.text_sources))
    /\ UNCHANGED <<op, args, stage, locals>>

ExtractFeatureKeywords ==
    /\ op = "_extract_feature_keywords"
    /\ ret = Pending
    /\ ret' = Ok(_extract_feature_keywords(args.text_sources))
    /\ UNCHANGED <<op, args, stage, locals>>

ExtractKeywords ==
    /\ op = "extract_keywords"
    /\ ret = Pending
    /\ ret' = extract_keywords(args.repo)
    /\ UNCHANGED <<op, args, stage, locals>>

NextKeywords ==
    \/ GatherTextSources
    \/ ExtractTechnicalKeywords
    \/ ExtractDomainKeywords
    \/ ExtractFeatureKeywords
    \/ ExtractKeywords

SpecKeywords == InitKeywords /\ [][NextKeywords]_vars

\* the text of a named source
C11_Text(text_sources, name) ==
    text_sources[CHOOSE i \in DOMAIN text_sources : text_sources[i].k = name].v

\* a pattern occurs in a text under the word rule: a pattern shorter than 4
\* characters as a whole word, a longer one as a substring
C11_Occurs(pattern, text) ==
    IF Len(pattern) < 4 THEN pattern \in C10_Words(text) ELSE Contains(text, pattern)

C11_Patterns(category) ==
    CASE category = "technical" -> technical_patterns
      [] category = "domain" -> domain_patterns
      [] category = "feature" -> feature_patterns

\* C11: the pattern keyword extractor reports a keyword for a text source
\* only when one of its trigger phrases occurs in that source, a phrase
\* shorter than 4 characters ("ios", "aws", "api", "jwt", "vue") as a whole
\* word and never inside a longer word.
C11_ShortPatternsWholeWord ==
    (op \in { "_extract_technical_keywords", "_extract_domain_keywords",
              "_extract_feature_keywords" } /\ Returned(ret)) =>
        \A i \in DOMAIN ret.value :
            \A s \in DOMAIN ret.value[i].sources :
                ret.value[i].sources[s] # Chars["languages"] =>
                    \E p \in DOMAIN C11_Patterns(ret.value[i].category) :
                        /\ C11_Patterns(ret.value[i].category)[p].name = ret.value[i].keyword
                        /\ C11_Occurs(Chars[C11_Patterns(ret.value[i].category)[p].pattern],
                                      C11_Text(args.text_sources, ret.value[i].sources[s]))

\* ---------------------------------------------------------------------------
\* GitHubService._analyze_single_repo: the language breakdown of a repository
\* ---------------------------------------------------------------------------
\* round((bytes_ / total_bytes) * 100, 1) in tenths of a percent
RoundedPercentage(bytes_, total_bytes) == RoundHalfEven(bytes_ * 1000, total_bytes)

\* the "languages" entry of the enriched repository; languages is the dict
\* of the GitHub API as <<[k |-> language, v |-> bytes], ...>>
LanguageBreakdown(languages) ==
    LET total_bytes == ValueSum(languages)
    IN  [raw_bytes |-> languages,
         percentages |->
             IF languages # <<>> /\ total_bytes > 0
             THEN [i \in DOMAIN languages |->
                     [k |-> languages[i].k, v |-> RoundedPercentage(languages[i].v, total_bytes)]]
             ELSE <<>>]

\* ---------------------------------------------------------------------------
\* Specification SpecLanguages: a repository is enriched with its language
\* breakdown and the metrics of the profile are computed from it
\* ---------------------------------------------------------------------------
MaxLanguages == 6
ByteSamples == { 0, 1, 2, 5 }
LanguageNames == << "Python", "JavaScript", "HTML", "CSS", "Shell", "Dockerfile" >>

\* the answers of GET /repos/{owner}/{repo}/languages
LanguagesSamples ==
    { [i \in DOMAIN bytes |-> [k |-> LanguageNames[i], v |-> bytes[i]]] :
        bytes \in SeqsUpTo(ByteSamples, MaxLanguages) }

InitLanguages ==
    /\ op = "_analyze_single_repo"
    /\ args \in { [languages |-> l] : l \in LanguagesSamples }
    /\ stage = "fetched"
    /\ locals = NoLocals
    /\ ret = Pending

AnalyzeSingleRepo ==
    /\ op = "_analyze_single_repo"
    /\ stage = "fetched"
    /\ stage' = "enriched"
    /\ ret' = Ok([name |-> "repo", languages |-> LanguageBreakdown(args.languages)])
    /\ UNCHANGED <<op, args, locals>>

\* calculate_metrics on the profile that holds the enriched repository
MetricsOfEnriched ==
    /\ op = "_analyze_single_repo"
    /\ stage = "enriched"
    /\ stage' = "measured"
    /\ locals' = [metrics |-> calculate_metrics(EmptyDict, <<ret.value>>)]
    /\ UNCHANGED <<op, args, ret>>

NextLanguages == AnalyzeSingleRepo \/ MetricsOfEnriched

SpecLanguages == InitLanguages /\ [][NextLanguages]_vars

\* C12: for a repository with non-empty language byte counts (positive
\* total) the stored per-language percentages sum to 100 within 0.1; with
\* empty byte counts the percentages mapping is empty and nothing is raised.
C12_PercentagesSumTo100 ==
    (op = "_analyze_single_repo" /\ stage # "fetched") =>
        /\ Returned(ret)
        /\ ValueSum(args.languages) > 0 =>
              /\ ValueSum(ret.value.languages.percentages) >= 999
              /\ ValueSum(ret.value.languages.percentages) <= 1001
        /\ args.languages = <<>> => ret.value.languages.percentages = <<>>

\* ---------------------------------------------------------------------------
\* DependencyParser.parse_requirements_txt
\* ---------------------------------------------------------------------------
RequirementNameChars == LowerLetters \cup UpperLetters \cup Digits \cup {"-", "_", "."}
RequirementOperators == {"=", "<", ">", "!", "~"}

\* re.match(r'^([a-zA-Z0-9\-_\.]+)([=<>!~]+.*)?$', line) on a stripped line:
\* None, or group 1 and group 2 ('' when group 2 did not take part)
RequirementMatch(line) ==
    LET n == RunLength(line, 1, RequirementNameChars)
    IN  IF n = 0 THEN None
        ELSE IF n = Len(line) THEN [name |-> line, version |-> <<>>]
        ELSE IF line[n + 1] \in RequirementOperators
             THEN [name |-> SubSeq(line, 1, n), version |-> SubSeq(line, n + 1, Len(line))]
        ELSE None

\* the loop of parse_requirements_txt from line i on
RECURSIVE RequirementsLoop(_, _, _)
RequirementsLoop(lines, i, deps) ==
    IF i > Len(lines) THEN deps
    ELSE LET line == StripText(Chars[lines[i]])
         IN  IF line = <<>> \/ StartsWith(line, <<"#">>) \/ RequirementMatch(line) = None
             THEN RequirementsLoop(lines, i + 1, deps)
             ELSE IF _is_major_framework(LowerText(RequirementMatch(line).name), "pypi")
             THEN RequirementsLoop(lines, i + 1,
                      Append(deps, Dep(LowerText(RequirementMatch(line).name),
                                       CleanVersionText(RequirementMatch(line).version),
                                       "production", "pypi", "requirements.txt")))
             ELSE RequirementsLoop(lines, i + 1, deps)

\* content is given by its lines: [lines |-> content.split('\n')]
parse_requirements_txt(content) == RequirementsLoop(content.lines, 1, <<>>)

\* ---------------------------------------------------------------------------
\* Specification SpecRequirements: version cleaning, the allowlist test and
\* the requirements.txt parser called on sample inputs
\* ---------------------------------------------------------------------------
MaxVersionLen == 4
MaxRequirementLines == 2

VersionAlphabet == { ">", "=", "1", ".", ",", " ", "\n" }

\* version strings, and the versions of a package.json that are no strings
VersionSamples ==
    { JStr(t) : t \in SeqsUpTo(VersionAlphabet, MaxVersionLen) }
    \cup { JStr(Chars["^18.2.0"]), JStr(Chars[">=4.18.2 <5"]), JStr(Chars["~=3.14, !=3.15"]),
           JNull, JNum(0), JNum(4) }

RequirementLines ==
    { "django==4.2.0", "requests>=2.0", "", "# flask==2.0", "Django>=3.2,<4.0",
      "django!=4.0", "djangorestframework~=3.14", "flask", "  pytest>=7.0\r",
      "pytest >= 7.0", "-r base.txt", "as==1.0", "numpy>= 1.26", "scikit_learn<1.4" }

RequirementsSamples == { Lines(ls) : ls \in SeqsUpTo(RequirementLines, MaxRequirementLines) }
    \cup { Lines(<<"django==4.2.0", "requests>=2.0", "">>) }

PackageNameSamples ==
    { "django", "Django", "django-filter", "requests", "as", "", "react", "@nestjs/core",
      "nestjs", "vue-router", "gin", "github.com/gin-gonic/gin", "left-pad" }

EcosystemSamples == { "npm", "pypi", "go", "maven" }

InitRequirements ==
    /\ \/ op = "_clean_version" /\ args \in { [version |-> v] : v \in VersionSamples }
       \/ op = "parse_requirements_txt" /\ args \in { [content |-> c] : c \in RequirementsSamples }
       \/ op = "_is_major_framework"
          /\ args \in { [package_name |-> n, ecosystem |-> e] :
                          n \in PackageNameSamples, e \in EcosystemSamples }
    /\ stage = "idle"
    /\ locals = NoLocals
    /\ ret = Pending

CleanVersion ==
    /\ op = "_clean_version"
    /\ ret = Pending
    /\ ret' = _clean_version(args.version)
    /\ UNCHANGED <<op, args, stage, locals>>

ParseRequirementsTxt ==
    /\ op = "parse_requirements_txt"
    /\ ret = Pending
    /\ ret' = Ok(parse_requirements_txt(args.content))
    /\ UNCHANGED <<op, args, stage, locals>>

IsMajorFramework ==
    /\ op = "_is_major_framework"
    /\ ret = Pending
    /\ ret' = Ok(_is_major_framework(Chars[args.package_name], args.ecosystem))
    /\ UNCHANGED <<op, args, stage, locals>>

NextRequirements == CleanVersion \/ ParseRequirementsTxt \/ IsMajorFramework

SpecRequirements == InitRequirements /\ [][NextRequirements]_vars

\* C13: version cleaning is idempotent: cleaning a cleaned version string
\* changes nothing, _clean_version(_clean_version(v)) = _clean_version(v).
C13_CleanVersionIdempotent ==
    (op = "_clean_version" /\ Returned(ret)) => _clean_version(JStr(ret.value)) = ret

\* C14: the version of every record parse_requirements_txt emits is
\* operator-stripped: it does not begin with one of the operator characters
\* = < > ! ~ that the line pattern allows between name and version.
C14_VersionOperatorStripped ==
    (op = "parse_requirements_txt" /\ Returned(ret)) =>
        \A i \in DOMAIN ret.value :
            ret.value[i].version = <<>> \/ ret.value[i].version[1] \notin RequirementOperators

\* s occurs in t: it is one of the pieces of t
C18_OccursIn(s, t) == \E i \in 1..(Len(t) + 1), j \in 0..Len(t) : SubSeq(t, i, j) = s

\* the lower-cased name equals, contains or is contained in an allowlist entry
C18_Allowed(name, ecosystem) ==
    /\ ecosystem \in DOMAIN major_frameworks
    /\ \E major \in major_frameworks[ecosystem] :
          \/ LowerText(name) = Chars[major]
          \/ C18_OccursIn(Chars[major], LowerText(name))
          \/ C18_OccursIn(LowerText(name), Chars[major])

\* the names of the dependencies read from the lines of a requirements.txt
C18_Read(lines) ==
    LET accepted == SelectSeq(lines, LAMBDA l :
                        /\ StripText(Chars[l]) # <<>>
                        /\ ~ StartsWith(StripText(Chars[l]), <<"#">>)
                        /\ RequirementMatch(StripText(Chars[l])) # None)
    IN  [i \in DOMAIN accepted |-> LowerText(RequirementMatch(StripText(Chars[accepted[i]])).name)]

\* C18: a dependency read from a manifest is emitted as a record if and only
\* if its lower-cased name equals an entry of the major-framework allowlist
\* of its ecosystem, contains such an entry or is contained in one; the
\* requirements.txt content "django==4.2.0\nrequests>=2.0\n" yields exactly
\* one record, django with version 4.2.0.
C18_EmittedIffAllowlisted ==
    /\ (op = "_is_major_framework" /\ Returned(ret)) =>
          ret.value = C18_Allowed(Chars[args.package_name], args.ecosystem)
    /\ (op = "parse_requirements_txt" /\ Returned(ret)) =>
          /\ [i \in DOMAIN ret.value |-> ret.value[i].name]
                = SelectSeq(C18_Read(args.content.lines), LAMBDA n : C18_Allowed(n, "pypi"))
          /\ args.content.lines = <<"django==4.2.0", "requests>=2.0", "">> =>
                ret.value = <<Dep(Chars["django"], Chars["4.2.0"], "production", "pypi",
                                  "requirements.txt")>>

\* the scenario was parsed: django was emitted and requests was not
C18_Witness ==
    /\ op = "parse_requirements_txt"
    /\ args.content.lines = <<"django==4.2.0", "requests>=2.0", "">>
    /\ Returned(ret)
    /\ Len(ret.value) = 1
    /\ ret.value[1].name = Chars["django"]

\* ---------------------------------------------------------------------------
\* ReadmeAnalyzer._deduplicate_skills
\* ---------------------------------------------------------------------------
\* ExtractedSkill; confidence is held in thousandths
ExtractedSkill(name, category, source, confidence) ==
    [name |-> name, category |-> category, source |-> source, confidence |-> confidence]

\* the dict skill_map, keyed by the lower-cased name, in insertion order
RECURSIVE SkillMapLoop(_, _, _)
SkillMapLoop(skills, i, skill_map) ==
    IF i > Len(skills) THEN skill_map
    ELSE LET key == LowerText(Chars[skills[i].name])
             at == { j \in DOMAIN skill_map : skill_map[j].k = key }
         IN  SkillMapLoop(skills, i + 1,
                 IF at = {} \/ (\E j \in at : skills[i].confidence > skill_map[j].v.confidence)
                 THEN DictSet(skill_map, key, skills[i])
                 ELSE skill_map)

_deduplicate_skills(skills) ==
    LET skill_map == SkillMapLoop(skills, 1, <<>>)
    IN  [j \in DOMAIN skill_map |-> skill_map[j].v]

\* ---------------------------------------------------------------------------
\* Specification SpecDedup: each deduplication is applied to a list and then
\* to its own output
\* ---------------------------------------------------------------------------
MaxSkills == 3

\* skills as the extraction steps of analyze_readme build them
SkillSamples ==
    { ExtractedSkill("React", "library", "package_manager", 900),
      ExtractedSkill("React", "library", "import", 800),
      ExtractedSkill("React", "framework", "keyword", 700),
      ExtractedSkill("Material-ui", "library", "package_manager", 900),
      ExtractedSkill("Material-Ui", "framework", "keyword", 700),
      ExtractedSkill("Docker", "tool", "badge", 950),
      ExtractedSkill("Docker", "tool", "keyword", 700) }

\* keywords as the three extractors of extract_keywords build them
RankedKeywordSamples ==
    { ExtractedKeyword("Kotlin", "technical", 1000, <<Chars["languages"]>>, 1),
      ExtractedKeyword("Kotlin", "technical", 700, <<Chars["readme"]>>, 1),
      ExtractedKeyword("REST API", "technical", 700, <<Chars["description"]>>, 1),
      ExtractedKeyword("REST API", "feature", 650, <<Chars["description"]>>, 1),
      ExtractedKeyword("REST API", "feature", 800, <<Chars["description"], Chars["readme"]>>, 2),
      ExtractedKeyword("Authentication", "feature", 800, <<Chars["topics"], Chars["readme"]>>, 2),
      ExtractedKeyword("Authentication", "feature", 650, <<Chars["readme"]>>, 1),
      ExtractedKeyword("Gaming", "domain", 800, <<Chars["description"]>>, 1) }

InitDedup ==
    /\ \/ /\ op = "_deduplicate_skills"
          /\ args \in { [skills |-> s] : s \in SeqsUpTo(SkillSamples, MaxSkills) }
       \/ /\ op = "_rank_and_deduplicate"
          /\ args \in { [keywords |-> k] : k \in SeqsUpTo(RankedKeywordSamples, MaxSkills) }
    /\ stage = "idle"
    /\ locals = NoLocals
    /\ ret = Pending

DeduplicateSkills ==
    /\ op = "_deduplicate_skills"
    /\ stage = "idle"
    /\ stage' = "once"
    /\ ret' = Ok(_deduplicate_skills(args.skills))
    /\ UNCHANGED <<op, args, locals>>

\* the output is handed to the same function again
DeduplicateSkillsAgain ==
    /\ op = "_deduplicate_skills"
    /\ stage = "once"
    /\ stage' = "twice"
    /\ locals' = [first |-> ret.value]
    /\ ret' = Ok(_deduplicate_skills(ret.value))
    /\ UNCHANGED <<op, args>>

RankAndDeduplicate ==
    /\ op = "_rank_and_deduplicate"
    /\ stage = "idle"
    /\ stage' = "once"
    /\ ret' = Ok(_rank_and_deduplicate(args.keywords))
    /\ UNCHANGED <<op, args, locals>>

RankAndDeduplicateAgain ==
    /\ op = "_rank_and_deduplicate"
    /\ stage = "once"
    /\ stage' = "twice"
    /\ locals' = [first |-> ret.value]
    /\ ret' = Ok(_rank_and_deduplicate(ret.value))
    /\ UNCHANGED <<op, args>>

NextDedup ==
    \/ DeduplicateSkills
    \/ DeduplicateSkillsAgain
    \/ RankAndDeduplicate
    \/ RankAndDeduplicateAgain

SpecDedup == InitDedup /\ [][NextDedup]_vars

C15_Elements(s) == { s[i] : i \in DOMAIN s }

\* out holds one entry for each lower-cased name of input and no two of the
\* same name, each an entry of input of the highest confidence for its name
C15_OnePerName(input, out, Name(_)) ==
    /\ \A i, j \in DOMAIN out :
          LowerText(Chars[Name(out[i])]) = LowerText(Chars[Name(out[j])]) => i = j
    /\ \A x \in C15_Elements(input) : \E y \in C15_Elements(out) :
          /\ LowerText(Chars[Name(y)]) = LowerText(Chars[Name(x)])
          /\ y.confidence >= x.confidence
    /\ C15_Elements(out) \subseteq C15_Elements(input)

C15_SkillName(s) == s.name
C15_KeywordName(k) == k.keyword

\* C15: deduplication is idempotent: _deduplicate_skills applied to its own
\* output returns the same set of skills and _rank_and_deduplicate applied to
\* its own output returns the same keywords in the same order; each output
\* holds at most one entry per lower-cased name, the one of the highest
\* confidence.
C15_DeduplicationIdempotent ==
    /\ (op = "_deduplicate_skills" /\ stage # "idle") =>
          C15_OnePerName(args.skills, IF stage = "once" THEN ret.value ELSE locals.first,
                         C15_SkillName)
    /\ (op = "_deduplicate_skills" /\ stage = "twice") =>
          C15_Elements(ret.value) = C15_Elements(locals.first)
    /\ (op = "_rank_and_deduplicate" /\ stage # "idle") =>
          C15_OnePerName(args.keywords, IF stage = "once" THEN ret.value ELSE locals.first,
                         C15_KeywordName)
    /\ (op = "_rank_and_deduplicate" /\ stage = "twice") => ret.value = locals.first

\* a list with a name twice was deduplicated, the entry of the higher
\* confidence was kept, and the second application changed nothing
C15_Witness ==
    /\ op = "_rank_and_deduplicate" /\ stage = "twice"
    /\ Len(args.keywords) = 3
    /\ Len(locals.first) = 2
    /\ ret.value = locals.first
    /\ \E i \in DOMAIN args.keywords : args.keywords[i] \notin C15_Elements(ret.value)

\* ---------------------------------------------------------------------------
\* DomainClassifier on its own: classify_repositories over the repositories of
\* a user, classify_repository over one repository
\* ---------------------------------------------------------------------------
MaxDomainRepos == 3

\* repositories as the GitHub service stores them: description a str or None,
\* topics a list or None, either key possibly not stored
DomainRepoSamples ==
    { [description |-> Str("Online shop with cart"), topics |-> List(<<"bank">>)],
      [description |-> Str("Learn game dev"), topics |-> List(<<"seo">>)],
      [description |-> Str("Patient health CMS")],
      [description |-> None, topics |-> List(<<"mobile", "app", "learning">>)],
      [description |-> Str("AI tutor"), topics |-> List(<<"ai">>)],
      [description |-> Str("Notes"), topics |-> List(<<"bank", "seo">>)],
      [description |-> Str("Plain notes"), topics |-> List(<<>>)],
      [description |-> None, topics |-> None],
      [description |-> Str(""), topics |-> List(<<>>)],
      EmptyDict,
      [description |-> Str("Shop"), topics |-> Num(5)] }

InitDomain ==
    /\ \/ /\ op = "classify_repositories"
          /\ args \in { [repos |-> r] : r \in SeqsUpTo(DomainRepoSamples, MaxDomainRepos) }
       \/ /\ op = "classify_repository"
          /\ args \in { [repo |-> r] : r \in DomainRepoSamples }
    /\ stage = "idle"
    /\ locals = NoLocals
    /\ ret = Pending

ClassifyUser ==
    /\ op = "classify_repositories"
    /\ stage = "idle"
    /\ stage' = "done"
    /\ ret' = classify_repositories(args.repos)
    /\ UNCHANGED <<op, args, locals>>

ClassifyRepository ==
    /\ op = "classify_repository"
    /\ stage = "idle"
    /\ stage' = "done"
    /\ ret' = classify_repository(args.repo)
    /\ UNCHANGED <<op, args, locals>>

NextDomain ==
    \/ ClassifyUser
    \/ ClassifyRepository

SpecDomain == InitDomain /\ [][NextDomain]_vars

\* the score a domain accumulates over the repositories: the sum of
\* (keywords of the domain matched in the repository) * (weight of the domain)
RECURSIVE C16_Accumulated(_, _, _)
C16_Accumulated(repositories, d, i) ==
    IF i > Len(repositories) THEN 0
    ELSE _count_keyword_matches(_prepare_text(repositories[i]).value,
                                DOMAIN_KEYWORDS[d].keywords)
             * (IF DOMAIN_KEYWORDS[d].domain \in DOMAIN DOMAIN_WEIGHTS
                THEN DOMAIN_WEIGHTS[DOMAIN_KEYWORDS[d].domain] ELSE 10)
         + C16_Accumulated(repositories, d, i + 1)

\* the first repository in which the domain matches a keyword
C16_FirstRepo(repositories, d) ==
    CHOOSE i \in DOMAIN repositories :
        /\ C16_Accumulated(<<repositories[i]>>, d, 1) > 0
        /\ \A j \in 1..(i - 1) : C16_Accumulated(<<repositories[j]>>, d, 1) = 0

\* domain d enters the running counter before domain e
C16_InsertedBefore(repositories, d, e) ==
    \/ C16_FirstRepo(repositories, d) < C16_FirstRepo(repositories, e)
    \/ C16_FirstRepo(repositories, d) = C16_FirstRepo(repositories, e) /\ d < e

C16_Matching(repositories) ==
    { d \in DOMAIN DOMAIN_KEYWORDS : C16_Accumulated(repositories, d, 1) > 0 }

\* C16: classify_repositories returns as primary_domain the domain of the
\* greatest accumulated score (the sum over the repositories of matched
\* keywords times weight); among the domains that tie for the greatest score
\* it returns the one that entered the running counter first
C16_PrimaryIsArgmax ==
    (op = "classify_repositories" /\ Returned(ret) /\ C16_Matching(args.repos) # {}) =>
        \E d \in C16_Matching(args.repos) :
            /\ ret.value.primary_domain = DOMAIN_KEYWORDS[d].domain
            /\ \A e \in C16_Matching(args.repos) \ {d} :
                  \/ C16_Accumulated(args.repos, e, 1) < C16_Accumulated(args.repos, d, 1)
                  \/ /\ C16_Accumulated(args.repos, e, 1) = C16_Accumulated(args.repos, d, 1)
                     /\ C16_InsertedBefore(args.repos, d, e)

\* a score accumulated over several repositories wins, and a tie for the
\* greatest score goes to a domain that stands later in the table but entered
\* the counter first
C16_Witness ==
    /\ op = "classify_repositories"
    /\ Returned(ret)
    /\ \E d, e \in C16_Matching(args.repos) :
          /\ d < e
          /\ ret.value.primary_domain = DOMAIN_KEYWORDS[e].domain
          /\ C16_Accumulated(args.repos, e, 1) = C16_Accumulated(args.repos, d, 1)
          /\ C16_Accumulated(args.repos, e, 1) > C16_Accumulated(<<args.repos[1]>>, e, 1)
          /\ \A i \in DOMAIN args.repos :
                C16_Accumulated(<<args.repos[i]>>, e, 1) < C16_Accumulated(args.repos, e, 1)

\* a repository whose description and topics are empty or missing
C17_Blank(repo) ==
    /\ PyGet(repo, "description") \in {None, Str("")}
    /\ PyGet(repo, "topics") \in {None, List(<<>>)}

C17_Sentinel(result) ==
    /\ result.primary_domain = "Software Development"
    /\ result.secondary_domains = <<>>
    /\ result.specializations = <<>>

\* C17: a repository whose description and topics are empty or None raises
\* nothing and adds nothing to any domain score (the result is the one of the
\* other repositories alone); when no domain matches any repository,
\* classify_repositories returns "Software Development" with empty
\* secondary_domains and specializations, and classify_repository returns
\* ("Software Development", 1.0)
C17_BlankContributesZero ==
    /\ (op = "classify_repositories" /\ ret # Pending) =>
          /\ (\A i \in DOMAIN args.repos : C17_Blank(args.repos[i])) => Returned(ret)
          /\ ret = classify_repositories(
                       SelectSeq(args.repos, LAMBDA r : ~ C17_Blank(r)))
          /\ \A i \in DOMAIN args.repos :
                (Returned(ret) /\ C17_Blank(args.repos[i])) =>
                    C16_Matching(<<args.repos[i]>>) = {}
          /\ (Returned(ret) /\ C16_Matching(args.repos) = {}) => C17_Sentinel(ret.value)
    /\ (op = "classify_repository" /\ ret # Pending) =>
          /\ C17_Blank(args.repo) => Returned(ret)
          /\ (Returned(ret) /\ C16_Matching(<<args.repo>>) = {}) =>
                ret = Ok([domain |-> "Software Development", score |-> 10])

\* repositories with None and with missing description and topics, and no
\* domain matched: the sentinel is returned
C17_Witness ==
    /\ op = "classify_repositories"
    /\ Returned(ret)
    /\ \E i, j \in DOMAIN args.repos :
          /\ args.repos[i] = [description |-> None, topics |-> None]
          /\ args.repos[j] = EmptyDict
    /\ C17_Sentinel(ret.value)

\* the accumulated score of the domain of a name
C19_Score(repositories, name) ==
    C16_Accumulated(repositories,
                    CHOOSE d \in DOMAIN DOMAIN_KEYWORDS : DOMAIN_KEYWORDS[d].domain = name, 1)

C19_MatchingNames(repositories) ==
    { DOMAIN_KEYWORDS[d].domain : d \in C16_Matching(repositories) }

MaxTechLanguages == 7
TechByteSamples == { 0, 1, 3, 4 }
TechLanguageNames == << "Python", "JavaScript", "HTML", "CSS", "Shell", "Go", "Rust" >>

\* profiles of one repository, enriched with the language breakdown of its bytes
TechRepoSamples ==
    { <<[name |-> "repo",
         pushed_at |-> [days_ago |-> 10],
         languages |-> LanguageBreakdown(
             [i \in DOMAIN bytes |-> [k |-> TechLanguageNames[i], v |-> bytes[i]]])]>> :
        bytes \in SeqsUpTo(TechByteSamples, MaxTechLanguages) }

InitTech ==
    /\ op = "analyze_technologies"
    /\ args \in { [repos |-> r] : r \in TechRepoSamples }
    /\ stage = "stored"
    /\ locals = NoLocals
    /\ ret = Pending

CalculateLanguageMetrics ==
    /\ op = "analyze_technologies"
    /\ stage = "stored"
    /\ stage' = "measured"
    /\ locals' = [metrics |-> calculate_metrics(EmptyDict, args.repos).value]
    /\ UNCHANGED <<op, args, ret>>

AnalyzeLanguageStack ==
    /\ op = "analyze_technologies"
    /\ stage = "measured"
    /\ stage' = "analyzed"
    /\ ret' = analyze_technologies(args.repos, locals.metrics.language_distribution)
    /\ UNCHANGED <<op, args, locals>>

NextTech ==
    \/ CalculateLanguageMetrics
    \/ AnalyzeLanguageStack

SpecTech == InitTech /\ [][NextTech]_vars

\* the percentage of a language in the distribution
C20_Percentage(language_distribution, language) ==
    language_distribution[CHOOSE i \in DOMAIN language_distribution :
                              language_distribution[i].k = language].v

\* percentage p is at least percentage q
C20_AtLeast(p, q) == p.n * q.d >= q.n * p.d

C20_Descending(language_distribution, stack) ==
    \A i \in 1..(Len(stack) - 1) :
        C20_AtLeast(C20_Percentage(language_distribution, stack[i]),
                    C20_Percentage(language_distribution, stack[i + 1]))

\* C20: a language is in primary_stack only if its percentage is strictly
\* greater than 15 and in secondary_stack only if it is 15 or less;
\* primary_stack holds at most 3 and secondary_stack at most 5 languages, each
\* in descending order of percentage; the stacks are disjoint; every language
\* of the distribution has an entry in technologies
C20_StackThreshold ==
    (op = "analyze_technologies" /\ stage = "analyzed" /\ Returned(ret)) =>
        LET language_distribution == locals.metrics.language_distribution
            primary_stack == ret.value.primary_stack
            secondary_stack == ret.value.secondary_stack
        IN  /\ \A i \in DOMAIN primary_stack :
                  /\ \E j \in DOMAIN language_distribution :
                        language_distribution[j].k = primary_stack[i]
                  /\ PctGT(C20_Percentage(language_distribution, primary_stack[i]), 15)
            /\ \A i \in DOMAIN secondary_stack :
                  /\ \E j \in DOMAIN language_distribution :
                        language_distribution[j].k = secondary_stack[i]
                  /\ ~ PctGT(C20_Percentage(language_distribution, secondary_stack[i]), 15)
            /\ Len(primary_stack) <= 3
            /\ Len(secondary_stack) <= 5
            /\ C20_Descending(language_distribution, primary_stack)
            /\ C20_Descending(language_distribution, secondary_stack)
            /\ \A i \in DOMAIN primary_stack, j \in DOMAIN secondary_stack :
                  primary_stack[i] # secondary_stack[j]
            /\ \A j \in DOMAIN language_distribution :
                  \E t \in DOMAIN ret.value.technologies :
                      ret.value.technologies[t].name = language_distribution[j].k

\* four languages above 15 of which three are in primary_stack, and a language
\* at exactly 15 in secondary_stack
C20_Witness ==
    /\ op = "analyze_technologies"
    /\ stage = "analyzed"
    /\ Returned(ret)
    /\ Cardinality({ j \in DOMAIN locals.metrics.language_distribution :
                       PctGT(locals.metrics.language_distribution[j].v, 15) }) = 4
    /\ Len(ret.value.primary_stack) = 3
    /\ \E i \in DOMAIN ret.value.secondary_stack :
          LET p == C20_Percentage(locals.metrics.language_distribution,
                                  ret.value.secondary_stack[i])
          IN  p.n = 15 * p.d

\* more than five languages at 15 or less, five of them in secondary_stack
C20_SecondaryCapReached ==
    /\ op = "analyze_technologies"
    /\ stage = "analyzed"
    /\ Returned(ret)
    /\ Cardinality({ j \in DOMAIN locals.metrics.language_distribution :
                       ~ PctGT(locals.metrics.language_distribution[j].v, 15) }) > 5
    /\ Len(ret.value.secondary_stack) = 5

\* the reference consistency of a number of days since the last commit
C21_Consistency(days) ==
    CASE days < 7 -> 10
      [] days >= 7 /\ days < 30 -> 8
      [] days >= 30 /\ days < 90 -> 6
      [] OTHER -> 3

\* the reference overall score in tenths: the weighted sum
\* star_score * 0.3 + consistency * 0.3 + docs_score * 0.4 is a whole number of
\* tenths, so rounding to one decimal leaves it as it is
C21_Overall(total_stars, consistency, docs_score) ==
    LET star_score == IF total_stars \div 5 < 10 THEN total_stars \div 5 ELSE 10
        weighted == 3 * star_score + 3 * consistency + 4 * docs_score
    IN  IF weighted > 60 THEN weighted ELSE 60

\* C21: calculate_scores returns consistency 10, 8, 6 or 3 for
\* days_since_last_commit < 7, < 30, < 90 or otherwise; overall =
\* round(max(6.0, star_score*0.3 + consistency*0.3 + docs_score*0.4), 1) with
\* star_score = min(10, total_stars // 5); depth "Senior" when overall > 8.5,
\* "Mid-level" when overall > 6.5, else "Junior"; activity_label "High Volume"
\* exactly when active_repos_count > 3
C21_ReferenceFormulas ==
    (op = "calculate_scores" /\ Returned(ret)) =>
        /\ ret.value.consistency = C21_Consistency(args.metrics.days_since_last_commit)
        /\ ret.value.overall = C21_Overall(args.metrics.total_stars,
                                           ret.value.consistency, ret.value.docs_score)
        /\ (ret.value.depth = "Senior") = (ret.value.overall > 85)
        /\ (ret.value.depth = "Mid-level") = (ret.value.overall > 65 /\ ret.value.overall <= 85)
        /\ (ret.value.depth = "Junior") = (ret.value.overall <= 65)
        /\ (ret.value.activity_label = "High Volume") = (args.metrics.active_repos_count > 3)
        /\ ret.value.activity_label \in {"High Volume", "Standard"}

\* an overall score of exactly 8.5 is "Mid-level", with more than 3 active
\* repositories
C21_Witness ==
    /\ op = "calculate_scores"
    /\ Returned(ret)
    /\ ret.value.overall = 85
    /\ ret.value.depth = "Mid-level"
    /\ ret.value.consistency = 10
    /\ args.metrics.active_repos_count > 3
    /\ ret.value.activity_label = "High Volume"

\* the primary domain recommend_role works with: "Software Development" for
\* an analysis that is None, empty or without the key
C22_Domain ==
    IF args.domain_analysis \in {None, EmptyDict} \/ ~ Has(args.domain_analysis, "primary_domain")
    THEN "Software Development"
    ELSE args.domain_analysis.primary_domain

\* the overall score (tenths) and the consistency the flags are computed
\* from, a missing one counting as 0; None or empty scores stand for
\* {overall: 5, depth: Junior}
C22_Overall ==
    IF args.scores \in {None, EmptyDict} THEN 50
    ELSE IF Has(args.scores, "overall") THEN args.scores.overall ELSE 0

C22_Consistency ==
    IF args.scores \notin {None, EmptyDict} /\ Has(args.scores, "consistency")
    THEN args.scores.consistency ELSE 0

\* documentation_percentage and total_stars, a missing one counting as 0
C22_Documentation ==
    IF Has(args.metrics, "documentation_percentage")
    THEN args.metrics.documentation_percentage ELSE Pct(0, 1)

C22_Stars == IF Has(args.metrics, "total_stars") THEN args.metrics.total_stars ELSE 0

C22_GreenExpected ==
    (IF C22_Domain \notin {"", "Software Development"}
        THEN {"Specialized in <domain>"} ELSE {})
    \cup (IF C22_Overall >= 70 THEN {"High Technical Proficiency"} ELSE {})
    \cup (IF C22_Documentation.n > 50 * C22_Documentation.d
          THEN {"Strong Documentation Practices"} ELSE {})
    \cup (IF C22_Stars > 10 THEN {"Community Recognition"} ELSE {})

C22_Set(flags) == { flags[i] : i \in DOMAIN flags }

\* C22: green_flags is never empty; it holds one flag for each satisfied
\* condition among (a primary domain other than "Software Development",
\* overall >= 7, documentation_percentage > 50, total_stars > 10) and is the
\* single fallback "Demonstrated Domain Expertise" exactly when none is
\* satisfied; red_flags holds "Limited Documentation" exactly when
\* documentation_percentage < 20 and "Low Activity Consistency" exactly when
\* consistency < 3
C22_Flags ==
    (op = "recommend_role" /\ Returned(ret)) =>
        /\ ret.value.green_flags # <<>>
        /\ Cardinality(C22_Set(ret.value.green_flags)) = Len(ret.value.green_flags)
        /\ C22_GreenExpected # {} => C22_Set(ret.value.green_flags) = C22_GreenExpected
        /\ (ret.value.green_flags = <<"Demonstrated Domain Expertise">>)
               = (C22_GreenExpected = {})
        /\ Cardinality(C22_Set(ret.value.red_flags)) = Len(ret.value.red_flags)
        /\ C22_Set(ret.value.red_flags) \subseteq
               {"Limited Documentation", "Low Activity Consistency"}
        /\ ("Limited Documentation" \in C22_Set(ret.value.red_flags))
               = (C22_Documentation.n < 20 * C22_Documentation.d)
        /\ ("Low Activity Consistency" \in C22_Set(ret.value.red_flags))
               = (C22_Consistency < 3)

\* documentation at exactly 50 percent and 10 stars with a generic domain and
\* an overall below 7: only the fallback flag
C22_Witness ==
    /\ op = "recommend_role"
    /\ Returned(ret)
    /\ C22_Domain = "Software Development"
    /\ Has(args.metrics, "documentation_percentage")
    /\ C22_Documentation.n = 50 * C22_Documentation.d
    /\ C22_Stars = 10
    /\ C22_Overall = 60
    /\ ret.value.green_flags = <<"Demonstrated Domain Expertise">>
    /\ ret.value.red_flags = <<>>

\* a repository as the claim takes it: a dict with a name whose description
\* and topics are each a value of the right type, None or missing
C23_TextOrNone(repo) ==
    /\ IsDict(repo)
    /\ Has(repo, "name")
    /\ PyGet(repo, "description") = None \/ Has(PyGet(repo, "description"), "str")
    /\ PyGet(repo, "topics") = None \/ Has(PyGet(repo, "topics"), "list")
    /\ Get(repo, "languages", EmptyDict) # None

\* C23: an exception raised while one repository is analysed in the
\* project-analysis step (a repository whose topics or description is None)
\* is caught for that repository alone: the step returns a project entry for
\* every repository and generate_report returns a success report
C23_ProjectExceptionsCaughtLocally ==
    (/\ op = "generate_report"
     /\ Has(locals, "domain_analysis")
     /\ stage # "analyze_projects"
     /\ \A i \in DOMAIN repos : C23_TextOrNone(repos[i])
     /\ \E i \in DOMAIN repos :
           PyGet(repos[i], "description") = None \/ PyGet(repos[i], "topics") = None) =>
        /\ Has(locals, "project_analysis")
        /\ Len(locals.project_analysis) = Len(repos)
        /\ \A i \in DOMAIN repos : locals.project_analysis[i].repository_name = repos[i].name
        /\ stage = "done" => ret.value.status = "success"

\* ---------------------------------------------------------------------------
\* StatisticalKeywordExtractor.merge_with_patterns
\* ---------------------------------------------------------------------------
\* the dataclass ScoredKeyword; the score is in thousandths
ScoredKeyword(keyword, score, source) ==
    [keyword |-> keyword, score |-> score, source |-> source]

\* {kw.lower() for kw in keywords}
LowerSet(keywords) == { LowerText(keywords[i]) : i \in DOMAIN keywords }

\* the merge with the statistical keywords first, whatever the flag
MergeStatisticalFirst(statistical_kws, pattern_kws, prefer_statistical, first, rest) ==
    LET stat_set == LowerSet([i \in DOMAIN statistical_kws |-> statistical_kws[i].keyword])
    IN  SelectSeq(first \o rest, LAMBDA kw : kw \in stat_set)
        \o SelectSeq(first \o rest, LAMBDA kw : kw \notin stat_set)

\* first is the order in which the set the merge starts with is listed
\* (list(a_set)), rest the order in which the other set is iterated; both
\* orders are fixed by the hash seed of the run
merge_with_patterns(statistical_kws, pattern_kws, prefer_statistical, first, rest) ==
    LET stat_set == LowerSet([i \in DOMAIN statistical_kws |-> statistical_kws[i].keyword])
        pattern_set == LowerSet(pattern_kws)
    IN  IF prefer_statistical
        THEN first \o SelectSeq(rest, LAMBDA kw : kw \notin stat_set)
        ELSE first \o SelectSeq(rest, LAMBDA kw : kw \notin pattern_set)

\* ---------------------------------------------------------------------------
\* Specification SpecMerge: the keywords of a repository are merged and the
\* first 15 are kept (AnalysisService._analyze_projects, lines 185-192)
\* ---------------------------------------------------------------------------
MaxMergeKeywords == 2
MaxListed == 3

\* all_keywords of the pattern extractor: names as the patterns give them
PatternNameSamples == { Chars[n] : n \in {"React", "react", "API", "Docker"} }

\* further pattern keywords, to fill the list up to the 15 that are kept
FillerNames ==
    << Chars["aws"], Chars["chat"], Chars["crm"], Chars["erp"], Chars["gaming"],
       Chars["ios"], Chars["jwt"], Chars["rest"], Chars["vue"], Chars["auth"],
       Chars["game"], Chars["swift"], Chars["shell"], Chars["python"] >>

FillerCounts == { 0, 13, 14 }

PatternKeywordSamples ==
    { kws \o SubSeqTo(FillerNames, n) :
        kws \in SeqsUpTo(PatternNameSamples, MaxMergeKeywords), n \in FillerCounts }

\* keywords that passed filter_technical
StatisticalKeywordSamples ==
    SeqsUpTo({ ScoredKeyword(Chars["React"], 120, "yake"),
               ScoredKeyword(Chars["api"], 50, "yake"),
               ScoredKeyword(Chars["REST API"], 80, "yake"),
               ScoredKeyword(Chars["Web Development"], 290, "yake") }, MaxMergeKeywords)

\* the first occurrences of the elements of a list, in its order
RECURSIVE FirstOccurrences(_, _, _)
FirstOccurrences(items, i, seen) ==
    IF i > Len(items) THEN seen
    ELSE FirstOccurrences(items, i + 1,
             IF \E j \in DOMAIN seen : seen[j] = items[i] THEN seen
             ELSE Append(seen, items[i]))

Rotation(items, k) ==
    [i \in DOMAIN items |-> items[((i + k - 1) % Len(items)) + 1]]

Reversed(items) == [i \in DOMAIN items |-> items[Len(items) + 1 - i]]

\* the orders in which the set of the (lower-cased) items is listed: every
\* order of a set of up to MaxListed elements; of a larger set the rotations
\* of the order of first occurrence and of its reverse
SetListings(items) ==
    LET lowered == FirstOccurrences([i \in DOMAIN items |-> LowerText(items[i])], 1, <<>>)
    IN  IF Len(lowered) <= MaxListed
        THEN Orderings({ lowered[i] : i \in DOMAIN lowered })
        ELSE { Rotation(lowered, k) : k \in 0..(Len(lowered) - 1) }
             \cup { Rotation(Reversed(lowered), k) : k \in 0..(Len(lowered) - 1) }

InitMerge ==
    /\ op = "merge_with_patterns"
    /\ args \in { [statistical_kws |-> s, pattern_kws |-> p, prefer_statistical |-> f] :
                    s \in StatisticalKeywordSamples, p \in PatternKeywordSamples,
                    f \in BOOLEAN }
    /\ stage = "extracted"
    /\ locals = NoLocals
    /\ ret = Pending

MergeWithPatterns ==
    /\ op = "merge_with_patterns"
    /\ stage = "extracted"
    /\ \E p \in SetListings(args.pattern_kws),
          s \in SetListings([i \in DOMAIN args.statistical_kws |->
                                args.statistical_kws[i].keyword]) :
          ret' = Ok(merge_with_patterns(args.statistical_kws, args.pattern_kws,
                                        args.prefer_statistical,
                                        IF args.prefer_statistical THEN s ELSE p,
                                        IF args.prefer_statistical THEN p ELSE s))
    /\ stage' = "merged"
    /\ UNCHANGED <<op, args, locals>>

\* pattern_keywords['all_keywords'] = merged_all[:15]
KeepTopKeywords ==
    /\ op = "merge_with_patterns"
    /\ stage = "merged"
    /\ stage' = "kept"
    /\ locals' = [all_keywords |-> SubSeqTo(ret.value, 15)]
    /\ UNCHANGED <<op, args, ret>>

NextMerge ==
    \/ MergeWithPatterns
    \/ KeepTopKeywords

SpecMerge == InitMerge /\ [][NextMerge]_vars

C24_PatternSet == { LowerText(args.pattern_kws[i]) : i \in DOMAIN args.pattern_kws }

C24_StatisticalOnly ==
    { LowerText(args.statistical_kws[i].keyword) : i \in DOMAIN args.statistical_kws }
        \ C24_PatternSet

C24_Elements(keywords) == { keywords[i] : i \in DOMAIN keywords }

\* C24: merged with prefer_statistical=False, every pattern keyword is in the
\* merged list before every statistical-only keyword, and no keyword is in it
\* twice (case-insensitively); so the first 15 entries hold a statistical
\* keyword only when they hold every pattern keyword
C24_PatternsFirst ==
    (op = "merge_with_patterns" /\ ~ args.prefer_statistical /\ Returned(ret)) =>
        LET pattern_set == C24_PatternSet
            statistical_only == C24_StatisticalOnly
            merged == ret.value
            lowered == [i \in DOMAIN merged |-> LowerText(merged[i])]
            patterns_at == { i \in DOMAIN merged : merged[i] \in pattern_set }
            statistical_at == { i \in DOMAIN merged : merged[i] \in statistical_only }
        IN  /\ C24_Elements(merged) = pattern_set \cup statistical_only
            /\ \A i \in patterns_at, j \in statistical_at : i < j
            /\ \A i, j \in DOMAIN merged : lowered[i] = lowered[j] => i = j
            /\ stage = "kept" =>
                  LET kept == C24_Elements(locals.all_keywords)
                  IN  /\ Len(locals.all_keywords) <= 15
                      /\ kept \cap statistical_only # {} => pattern_set \subseteq kept
                      /\ pattern_set \ kept # {} => kept \subseteq pattern_set

\* pattern keywords that differ in case only, 16 merged keywords of which the
\* 15 kept are every pattern keyword and one of two statistical ones
C24_Witness ==
    /\ op = "merge_with_patterns"
    /\ ~ args.prefer_statistical
    /\ stage = "kept"
    /\ Cardinality(C24_PatternSet) < Len(args.pattern_kws)
    /\ Len(ret.value) = 16
    /\ C24_PatternSet \subseteq C24_Elements(locals.all_keywords)
    /\ Cardinality(C24_StatisticalOnly \cap C24_Elements(locals.all_keywords)) = 1
    /\ Cardinality(C24_StatisticalOnly) = 2

\* more than 15 pattern keywords: the 15 kept are pattern keywords only
C24_PatternsAloneKept ==
    /\ op = "merge_with_patterns"
    /\ ~ args.prefer_statistical
    /\ stage = "kept"
    /\ Cardinality(C24_PatternSet) > 15
    /\ C24_StatisticalOnly # {}
    /\ C24_Elements(locals.all_keywords) \subseteq C24_PatternSet

\* ---------------------------------------------------------------------------
\* Specification SpecShared: generate_report calls for different users in one
\* process, one step of _generate_deterministic_report of one call at a time.
\* args.calls[c] is the data object the caller of call c passed in,
\* locals.tables the objects that outlive a call (the module-level tables of
\* keywords_config and the tables the analyzer singletons build in __init__),
\* locals.frames[c] the local variables of call c, ret[c] its result.
\* ---------------------------------------------------------------------------
MaxCalls == 2

SharedTables ==
    [DOMAIN_KEYWORDS |-> DOMAIN_KEYWORDS,
     DOMAIN_WEIGHTS |-> DOMAIN_WEIGHTS,
     all_tech_keywords |-> all_tech_keywords,
     domain_role_map |-> domain_role_map,
     major_frameworks |-> major_frameworks]

CallSamples ==
    { NonDict,
      [user |-> [login |-> Str("octocat"), name |-> None, created_at |-> [age_tenths |-> 35]],
       repositories |-> List(<<CHOOSE r \in RepoSamples : Get(r, "name", "") = "clinic-api">>)],
      [user |-> [login |-> Str("ghost"), name |-> Str("Ghost"), created_at |-> [invalid |-> TRUE]],
       repositories |-> List(<<CHOOSE r \in RepoSamples : Get(r, "name", "") = "shop-app",
                               CHOOSE r \in RepoSamples : Get(r, "name", "") = "notes">>)],
      [user |-> EmptyDict,
       repositories |-> List(<<CHOOSE r \in RepoSamples : Get(r, "name", "") = "legacy">>)] }

\* the steps of _generate_deterministic_report in program order, each with the
\* local it assigns
Stages ==
    << [name |-> "parse_dependencies", local |-> "all_dependencies"],
       [name |-> "calculate_metrics", local |-> "metrics"],
       [name |-> "analyze_technologies", local |-> "tech_analysis"],
       [name |-> "classify_repositories", local |-> "domain_analysis"],
       [name |-> "analyze_projects", local |-> "project_analysis"],
       [name |-> "compile_skills", local |-> "skills"],
       [name |-> "calculate_scores", local |-> "scores"],
       [name |-> "generate_summary", local |-> "summary"],
       [name |-> "recommend_role", local |-> "recommendation"],
       [name |-> "assemble_report", local |-> "report"] >>

\* user = data.get("user", {}) and repos = data.get("repositories", []) of
\* a call on data
UserOf(data) == Get(data, "user", EmptyDict)
ReposOf(data) == Get(data, "repositories", List(<<>>)).list

\* what the step called name computes from the data of the call and the
\* locals assigned so far; orders is the listing order of the keyword sets
RunStage(name, data, frame, orders) ==
    CASE name = "parse_dependencies" -> ParseDependencyFiles(data)
      [] name = "calculate_metrics" -> calculate_metrics(UserOf(data), ReposOf(data))
      [] name = "analyze_technologies" ->
             analyze_technologies(ReposOf(data), frame.metrics.language_distribution)
      [] name = "classify_repositories" -> classify_repositories(ReposOf(data))
      [] name = "analyze_projects" ->
             _analyze_projects(ReposOf(data), frame.domain_analysis, frame.tech_analysis,
                               orders)
      [] name = "compile_skills" ->
             _compile_skills(frame.tech_analysis, frame.domain_analysis, frame.metrics,
                             ReposOf(data), frame.all_dependencies)
      [] name = "calculate_scores" -> calculate_scores(frame.metrics, frame.tech_analysis)
      [] name = "generate_summary" ->
             _generate_summary(UserOf(data), frame.metrics, frame.tech_analysis,
                               frame.domain_analysis, frame.skills)
      [] name = "recommend_role" ->
             recommend_role(frame.domain_analysis,
                            ("detected_frameworks" :> frame.skills.frameworks_and_libraries)
                                @@ frame.tech_analysis,
                            frame.scores, frame.metrics)
      [] name = "assemble_report" ->
             Ok(_assemble_report(UserOf(data), frame.tech_analysis, frame.project_analysis,
                                 frame.skills, frame.domain_analysis, frame.summary,
                                 frame.scores, frame.metrics, frame.recommendation))

\* the listing orders step s of a call on data can meet
StageOrders(s, data) ==
    IF Stages[s].name = "analyze_projects"
    THEN ListingOrders(ReposOf(data), 1)
    ELSE {<<>>}

\* a step of the mutant that keeps the scores of the call in the shared
\* weight table, as self.domain_weights.update(...) would
AfterStageScoresInTable(tables, data, frame, s, outcome) ==
    [tables |-> IF Stages[s].name = "classify_repositories" /\ ~ IsRaised(outcome)
                THEN [tables EXCEPT !.DOMAIN_WEIGHTS =
                          (outcome.value.primary_domain :> 0) @@ @]
                ELSE tables,
     data |-> data,
     frame |-> IF IsRaised(outcome)
               THEN ("exception" :> outcome.raised) @@ ("stage" :> 0) @@ frame
               ELSE (Stages[s].local :> outcome.value) @@ ("stage" :> s + 1) @@ frame]

\* what step s of a call leaves behind. Every object the steps assign into
\* is one the call created itself: all_dependencies (analysis_service.py:86,
\* 92), the Counters lang_bytes and domain_scores (scoring_engine.py:52,
\* domain_classifier.py:64), the keyword dict extract_keywords returned
\* (analysis_service.py:192), the framework dicts of detect_frameworks
\* (tech_analyzer.py:152-154) and the result lists; text is lowered with
\* str.lower(), which returns a new string. tables and data are as before.
\* stage 0 of a frame is the except clause
AfterStage(tables, data, frame, s, outcome) ==
    [tables |-> tables,
     data |-> data,
     frame |-> IF IsRaised(outcome)
               THEN ("exception" :> outcome.raised) @@ ("stage" :> 0) @@ frame
               ELSE (Stages[s].local :> outcome.value) @@ ("stage" :> s + 1) @@ frame]

InitShared ==
    /\ op = "generate_report"
    /\ args \in { [calls |-> calls] :
                    calls \in { cs \in [1..MaxCalls -> CallSamples] :
                                  \A c, d \in 1..MaxCalls : c # d => cs[c] # cs[d] } }
    /\ stage = "running"
    /\ locals = [tables |-> SharedTables,
                 frames |-> [c \in 1..MaxCalls |-> ("stage" :> 1)]]
    /\ ret = [c \in 1..MaxCalls |-> Pending]

\* call c runs its next step
StepOfCall ==
    \E c \in 1..MaxCalls :
        /\ op = "generate_report" /\ ret[c] = Pending
        /\ locals.frames[c].stage \in DOMAIN Stages
        /\ \E orders \in StageOrders(locals.frames[c].stage, args.calls[c]) :
           \E after \in { AfterStage(locals.tables, args.calls[c], locals.frames[c],
                                     locals.frames[c].stage,
                                     RunStage(Stages[locals.frames[c].stage].name,
                                              args.calls[c], locals.frames[c], orders)) } :
              /\ locals' = [tables |-> after.tables,
                            frames |-> [locals.frames EXCEPT ![c] = after.frame]]
              /\ args' = [calls |-> [args.calls EXCEPT ![c] = after.data]]
        /\ UNCHANGED <<op, stage, ret>>

\* call c returns the report it assembled
ReturnReport ==
    \E c \in 1..MaxCalls :
        /\ op = "generate_report" /\ locals.frames[c].stage = Len(Stages) + 1
        /\ ret[c] = Pending
        /\ ret' = [ret EXCEPT ![c] = Ok(locals.frames[c].report)]
        /\ stage' = IF \A d \in 1..MaxCalls : ret'[d] # Pending THEN "done" ELSE stage
        /\ UNCHANGED <<op, args, locals>>

\* call c returns the fallback from the except clause of generate_report
ReturnFallback ==
    \E c \in 1..MaxCalls :
        /\ op = "generate_report" /\ locals.frames[c].stage = 0
        /\ ret[c] = Pending
        /\ ret' = [ret EXCEPT ![c] = Except(locals.frames[c].exception)]
        /\ stage' = IF \A d \in 1..MaxCalls : ret'[d] # Pending THEN "done" ELSE stage
        /\ UNCHANGED <<op, args, locals>>

NextShared ==
    \/ StepOfCall
    \/ ReturnReport
    \/ ReturnFallback

SpecShared == InitShared /\ [][NextShared]_vars

\* the results generate_report(data) can have when the call runs alone,
\* from step s on with the locals in frame
RECURSIVE C25_Alone(_, _, _)
C25_Alone(data, frame, s) ==
    IF s = 0 THEN { Except(frame.exception) }
    ELSE IF s > Len(Stages) THEN { Ok(frame.report) }
    ELSE UNION { UNION { C25_Alone(data, after.frame, after.frame.stage) :
                         after \in { AfterStage(SharedTables, data, frame, s,
                                         RunStage(Stages[s].name, data, frame, orders)) } } :
                 orders \in StageOrders(s, data) }

MaxTypeWords == 2

\* words of the sample texts: every trigger of a rule, words that hold a
\* trigger inside them, and words that hold none
TypeWords ==
    { "api", "backend", "microservice", "library", "sdk", "package", "cli", "tool",
      "mobile", "app", "model", "training", "dataset", "notebook", "analysis",
      "capital", "client", "application", "remodel", "web", "site", "blog" }

TypeTextSamples ==
    { JoinWords(ws) : ws \in SeqsUpTo({ Chars[w] : w \in TypeWords }, MaxTypeWords) }

InitProjectType ==
    /\ op = "_infer_project_type"
    /\ args \in { [text |-> t] : t \in TypeTextSamples }
    /\ stage = "idle"
    /\ locals = NoLocals
    /\ ret = Pending

InferProjectType ==
    /\ op = "_infer_project_type"
    /\ ret = Pending
    /\ ret' = Ok(_infer_project_type(args.text))
    /\ stage' = "done"
    /\ UNCHANGED <<op, args, locals>>

NextProjectType == InferProjectType

SpecProjectType == InitProjectType /\ [][NextProjectType]_vars

\* the rules in the order the claim gives them
C26_Rules ==
    << [type |-> "API Service", triggers |-> {"api", "backend", "microservice"}],
       [type |-> "Library", triggers |-> {"library", "sdk", "package"}],
       [type |-> "CLI Tool", triggers |-> {"cli", "tool"}],
       [type |-> "Mobile App", triggers |-> {"mobile", "app"}],
       [type |-> "AI Model", triggers |-> {"model", "training", "dataset"}],
       [type |-> "Data Analysis", triggers |-> {"notebook", "analysis"}] >>

\* the rules of which a trigger occurs in the text
C26_Triggered(text) ==
    { r \in DOMAIN C26_Rules : \E t \in C26_Rules[r].triggers : Contains(text, Chars[t]) }

\* C26: _infer_project_type returns the type of the earliest rule, in the
\* order API Service, Library, CLI Tool, Mobile App, AI Model, Data Analysis,
\* of which a trigger occurs in the text, and "Web App" exactly when no
\* trigger of any rule occurs in it.
C26_FirstMatchingRule ==
    ret # Pending =>
        /\ \A r \in C26_Triggered(args.text) :
              (\A q \in C26_Triggered(args.text) : r <= q) => ret.value = C26_Rules[r].type
        /\ ret.value = "Web App" <=> C26_Triggered(args.text) = {}

\* a text that triggers two rules got the type of the earliest of them,
\* which is not the rule whose trigger comes first in the text
C26_Witness ==
    /\ ret # Pending
    /\ args.text = Chars["remodel application"]
    /\ C26_Triggered(args.text) = {4, 5}
    /\ ret.value = "Mobile App"

\* C27: once calculate_scores has run, the consistency score is one of 3, 6,
\* 8 and 10, and no report generate_report returns has
\* "Low Activity Consistency" among its red_flags.
C27_NeverLowActivityConsistency ==
    /\ (op = "generate_report" /\ "scores" \in DOMAIN locals) =>
           locals.scores.consistency \in {3, 6, 8, 10}
    /\ (ret # Pending /\ ret.value.status = "success") =>
           \A i \in DOMAIN ret.value.report.hiring_recommendation.red_flags :
               ret.value.report.hiring_recommendation.red_flags[i] # "Low Activity Consistency"

\* a report for repositories whose last push is 90 days or more ago: the
\* consistency score is 3, the lowest there is, and no red flag is raised
\* for it
C27_Witness ==
    /\ ret # Pending /\ ret.value.status = "success"
    /\ repos # <<>>
    /\ locals.metrics.days_since_last_commit >= 90
    /\ locals.scores.consistency = 3
    /\ \A i \in DOMAIN ret.value.report.hiring_recommendation.red_flags :
           ret.value.report.hiring_recommendation.red_flags[i] # "Low Activity Consistency"

\* ---------------------------------------------------------------------------
\* Specification SpecFrameworks: _map_domain_to_roles on lists of detected
\* frameworks whose names several groups of the framework stage list.
\* ---------------------------------------------------------------------------
MaxStack == 2

\* next.js, nuxt and remix are in frontend_frameworks and fullstack_combo,
\* grpc in backend_frameworks and api_frameworks, prisma and redis in
\* database_frameworks and api_frameworks; the other names are in one group
\* or in none
StackNames ==
    { "next.js", "Next.js", "nuxt", "remix", "meteor", "sveltekit", "blitz", "grpc", "gRPC",
      "prisma", "redis", "graphql", "expo", "react", "django", "lodash" }

StackArgs ==
    { [domain |-> d, languages |-> l, frameworks |-> f] :
        d \in {"", "Healthcare"}, l \in {<<>>, <<"Python">>},
        f \in SeqsUpTo({ [name |-> Chars[n]] : n \in StackNames }, MaxStack) }

InitFrameworks ==
    /\ op = "_map_domain_to_roles"
    /\ args \in StackArgs
    /\ stage = "idle"
    /\ locals = NoLocals
    /\ ret = Pending

NextFrameworks == MapDomainToRoles

SpecFrameworks == InitFrameworks /\ [][NextFrameworks]_vars

\* the detected names, lower-cased, that are among the given ones
C28_Detected(frameworks, among) ==
    { n \in among : \E i \in DOMAIN frameworks : LowerText(frameworks[i].name) = Chars[n] }

\* the parts of the statement that do not depend on the mobile group: the
\* group that decides is reached through a detected name no earlier group
\* lists; the framework stage gives "Full-stack Developer" only with meteor,
\* sveltekit or blitz detected and none of next.js, nuxt and remix; with
\* grpc, prisma or redis detected the role is never "API Developer"
C28_LaterGroups ==
    (op = "_map_domain_to_roles" /\ Returned(ret)) =>
        LET groups == C4_Groups(args.frameworks)
            role == ret.value.role
        IN  groups # {} =>
            /\ \A g \in DOMAIN FrameworkGroups :
                  role = FrameworkGroups[g].role =>
                      \E n \in C28_Detected(args.frameworks, FrameworkGroups[g].names) :
                          \A h \in 1..(g - 1) : n \notin FrameworkGroups[h].names
            /\ role = "Full-stack Developer" =>
                  /\ C28_Detected(args.frameworks, {"meteor", "sveltekit", "blitz"}) # {}
                  /\ C28_Detected(args.frameworks, {"next.js", "nuxt", "remix"}) = {}
            /\ C28_Detected(args.frameworks, {"grpc", "prisma", "redis"}) # {} =>
                  role # "API Developer"

C28_FullStackReached ==
    /\ op = "_map_domain_to_roles" /\ Returned(ret)
    /\ ret.value.role = "Full-stack Developer"
    /\ C28_Detected(args.frameworks, {"meteor", "sveltekit", "blitz"}) # {}

C28_ApiReached ==
    /\ op = "_map_domain_to_roles" /\ Returned(ret)
    /\ ret.value.role = "API Developer"
    /\ C28_Detected(args.frameworks, {"graphql"}) # {}

\* ---------------------------------------------------------------------------
\* Specification SpecProjects: generate_report, step by step as in Spec, on
\* profiles of up to MaxLongRepositories repositories.
\* ---------------------------------------------------------------------------
MaxLongRepositories == 12

\* repository number i of a long profile; the eleventh is the only one whose
\* text holds a domain keyword
LongRepo(i) ==
    [name |-> <<"r01", "r02", "r03", "r04", "r05", "r06", "r07", "r08", "r09", "r10", "r11",
                "r12", "r13">>[i],
     description |-> IF i = 11 THEN Str("Patient healthcare portal") ELSE None,
     stargazers_count |-> i]

\* the repositories in input order, in reverse order, and with two
\* repositories after the tenth on which _analyze_projects raises
LongLists ==
    { [i \in 1..MaxLongRepositories |-> LongRepo(i)],
      [i \in 1..MaxLongRepositories |-> LongRepo(MaxLongRepositories + 1 - i)],
      [i \in 1..MaxLongRepositories |->
          IF i = 11 THEN [name |-> "legacy", topics |-> None]
          ELSE IF i = 12 THEN [description |-> Str("Patient records api")]
          ELSE LongRepo(i)] }

LongDataSamples ==
    { [user |-> u, repositories |-> List(SubSeqTo(rs, n))] :
        u \in { EmptyDict,
                [login |-> Str("octocat"), name |-> None, created_at |-> [age_tenths |-> 35]] },
        rs \in LongLists, n \in {0, 1, 9, 10, 11, MaxLongRepositories} }

InitProjects ==
    /\ op = "generate_report"
    /\ args \in { [data |-> d] : d \in LongDataSamples }
    /\ stage = "parse_dependencies"
    /\ locals = NoLocals
    /\ ret = Pending

SpecProjects == InitProjects /\ [][Next]_vars

\* C29: in every successful report project_scope_analysis has
\* min(10, number of repositories) entries, entry i being the project of
\* repository i of the input; the repositories after the tenth are not in it
\* but are counted in the metrics and in the domain classification.
C29_FirstTenProjects ==
    (op = "generate_report" /\ ret # Pending /\ ret.value.status = "success") =>
        /\ Len(ret.value.report.project_scope_analysis) = Min(10, Len(repos))
        /\ \A i \in DOMAIN ret.value.report.project_scope_analysis :
              ret.value.report.project_scope_analysis[i].repository_name = repos[i].name
        /\ ret.value.report.code_quality.documentation_evidence.of = Len(repos)
        /\ C16_Matching(repos) # {} =>
              \E d \in C16_Matching(repos) :
                  ret.value.report.domain_classification.primary_domain
                      = DOMAIN_KEYWORDS[d].domain

\* a report on twelve repositories: ten projects, the first ten of the input
\* in order; the eleventh repository, which is not among them, has decided
\* the primary domain
C29_Witness ==
    /\ op = "generate_report" /\ ret # Pending /\ ret.value.status = "success"
    /\ Len(repos) = 12
    /\ Len(ret.value.report.project_scope_analysis) = 10
    /\ repos[11].name = "r11"
    /\ \A i \in 1..10 : ret.value.report.project_scope_analysis[i].repository_name # "r11"
    /\ ret.value.report.domain_classification.primary_domain = "Healthcare"
    /\ locals.metrics.total_repos = 12

\* ---------------------------------------------------------------------------
\* Specification SpecDocs: calculate_scores on the metrics of two profiles,
\* one call after the other, to compare their docs_score.
\* ---------------------------------------------------------------------------
MaxDocRepos == 20

\* the metrics calculate_metrics returns for total_repos repositories of which
\* repos_with_readme have a README
DocMetrics(total_repos, repos_with_readme) ==
    [total_repos |-> total_repos, total_stars |-> 0, total_forks |-> 0,
     repos_with_readme |-> repos_with_readme,
     documentation_percentage |-> Pct(repos_with_readme * 100, total_repos),
     days_since_last_commit |-> 0, active_repos_count |-> 0,
     language_distribution |-> <<>>]

DocMetricsSamples ==
    { DocMetrics(n, r) : n \in {1, 3, 4, 8, MaxDocRepos}, r \in 0..MaxDocRepos }

InitDocs ==
    /\ op = "calculate_scores"
    /\ args \in { [metrics |-> m, other |-> o] :
                    m, o \in { x \in DocMetricsSamples : x.repos_with_readme <= x.total_repos } }
    /\ stage = "first"
    /\ locals = NoLocals
    /\ ret = Pending

ScoreFirst ==
    /\ op = "calculate_scores" /\ stage = "first"
    /\ locals' = ("first" :> calculate_scores(args.metrics, [primary_stack |-> <<>>]).value)
                     @@ locals
    /\ stage' = "second"
    /\ UNCHANGED <<op, args, ret>>

ScoreSecond ==
    /\ op = "calculate_scores" /\ stage = "second"
    /\ ret' = calculate_scores(args.other, [primary_stack |-> <<>>])
    /\ stage' = "done"
    /\ UNCHANGED <<op, args, locals>>

NextDocs == ScoreFirst \/ ScoreSecond

SpecDocs == InitDocs /\ [][NextDocs]_vars

\* score is documentation_percentage / 10 rounded to the nearest integer, a
\* half to the even neighbour
C30_NearestEven(metrics, score) ==
    /\ 2 * (metrics.repos_with_readme * 100 - 10 * score * metrics.total_repos)
           <= 10 * metrics.total_repos
    /\ 2 * (10 * score * metrics.total_repos - metrics.repos_with_readme * 100)
           <= 10 * metrics.total_repos
    /\ (2 * (metrics.repos_with_readme * 100 - 10 * score * metrics.total_repos)
           \in {10 * metrics.total_repos, 0 - 10 * metrics.total_repos}) => score % 2 = 0

\* C30: docs_score is an integer from 0 to 10 for every documentation
\* percentage from 0 to 100, is documentation_percentage / 10 rounded half to
\* even, and of two profiles the one with the greater documentation
\* percentage never has the lower docs_score.
C30_DocsScoreMonotone ==
    (op = "calculate_scores" /\ stage = "done") =>
        /\ locals.first.docs_score \in 0..10
        /\ ret.value.docs_score \in 0..10
        /\ C30_NearestEven(args.metrics, locals.first.docs_score)
        /\ C30_NearestEven(args.other, ret.value.docs_score)
        /\ (args.metrics.repos_with_readme * args.other.total_repos
               <= args.other.repos_with_readme * args.metrics.total_repos)
              => locals.first.docs_score <= ret.value.docs_score

\* documentation percentages 25 and 35, both halfway between two scores:
\* 2.5 is rounded down to 2 and 3.5 up to 4
C30_Witness ==
    /\ op = "calculate_scores" /\ stage = "done"
    /\ args.metrics.total_repos = 4 /\ args.metrics.repos_with_readme = 1
    /\ args.other.total_repos = 20 /\ args.other.repos_with_readme = 7
    /\ locals.first.docs_score = 2
    /\ ret.value.docs_score = 4

====
